---- MODULE Spec2Model ----
(***************************************************************************)
(* Delivery pipeline of meo-meo-logger: CoreLogger (dispatch, flush) and   *)
(* TransportSlot (enqueue, flushNow, doWrite, isRateLimited) on the        *)
(* single-threaded JavaScript event loop.                                  *)
(*                                                                         *)
(* A synchronous stretch of code (a log call, a flush() call, a timer      *)
(* callback, one promise reaction) is one action.  Promise reactions wait  *)
(* in the FIFO microtask queue `micro`; timers fire only when that queue   *)
(* is empty.  Every transport.write call draws its outcome from an oracle: *)
(* "ok" (returns a non-promise), "throw" (raises synchronously), "async"   *)
(* (returns a pending promise, settled later by WriteSettle), "resolved"   *)
(* or "rejected" (returns a promise that is settled already).              *)
(***************************************************************************)
EXTENDS Integers, Sequences, FiniteSets, TLC

VARIABLES
    logger,   \* CoreLogger statics: level and the active slots (ids into slot)
    slot,     \* every TransportSlot ever constructed, by id
    micro,    \* microtask queue (promise reaction jobs), FIFO
    waiters,  \* one record per CoreLogger.flush() call: its Promise.all
    now,      \* Date.now()
    nextId,   \* number of the next log call (used as the entry's msg)
    fails,    \* failed transport writes so far
    status    \* outcome of the last API call and of the process

vars == <<logger, slot, micro, waiters, now, nextId, fails, status>>

---------------------------------------------------------------------------
\* Bounds of the model

MaxEntries == 3
MaxRateEntries == 4
MaxFlushCalls == 1
MaxFails == 2
MaxTicks == 2
MaxSlots == 2
MaxLifeEntries == 2
MaxPairEntries == 1
MaxOverlap == 2
MaxCalls == 3

---------------------------------------------------------------------------
\* Program constants

LEVEL_ORDER == <<"debug", "info", "warn", "error">>

\* Array.prototype.indexOf on LEVEL_ORDER (0-based)
IndexOf(l) == (CHOOSE i \in 1..Len(LEVEL_ORDER) : LEVEL_ORDER[i] = l) - 1

VALID_MODES == {"pretty", "json", "silent"}

\* the characters String.prototype.trim removes: WhiteSpace and
\* LineTerminator of ECMAScript.  A character that a string literal here
\* cannot hold is written as its code point.
WhiteSpace ==
    {"\t", "\n", "U+000B", "\f", "\r", " ", "U+00A0", "U+1680",
     "U+2000", "U+2001", "U+2002", "U+2003", "U+2004", "U+2005", "U+2006",
     "U+2007", "U+2008", "U+2009", "U+200A", "U+2028", "U+2029", "U+202F",
     "U+205F", "U+3000", "U+FEFF"}

\* length of the rate window in ms
WindowMs == 1000

\* granularity of the modelled clock in ms
TickMs == 500

NoPromise == 0

---------------------------------------------------------------------------
\* Sequence helpers

Last(n, seq) == IF Len(seq) <= n THEN seq ELSE SubSeq(seq, Len(seq) - n + 1, Len(seq))

RECURSIVE IsSubseq(_, _)
IsSubseq(a, b) ==
    IF a = <<>> THEN TRUE
    ELSE IF b = <<>> THEN FALSE
    ELSE IF Head(a) = Head(b) THEN IsSubseq(Tail(a), Tail(b))
    ELSE IsSubseq(a, Tail(b))

Range(seq) == {seq[i] : i \in 1..Len(seq)}

RECURSIVE Flatten(_)
VALID_LEVELS == Range(LEVEL_ORDER)

\* String.prototype.trim on a string given as its sequence of characters
RECURSIVE TrimStart(_)
TrimStart(str) ==
    IF str # <<>> /\ Head(str) \in WhiteSpace THEN TrimStart(Tail(str)) ELSE str

RECURSIVE TrimEnd(_)
TrimEnd(str) ==
    IF str # <<>> /\ str[Len(str)] \in WhiteSpace
    THEN TrimEnd(SubSeq(str, 1, Len(str) - 1))
    ELSE str

Trim(str) == TrimEnd(TrimStart(str))

Flatten(ss) == IF ss = <<>> THEN <<>> ELSE Head(ss) \o Flatten(Tail(ss))

---------------------------------------------------------------------------
\* TransportSlot: construction

\* TransportConfig with the constructor's defaults (?? 1, ?? 0)
DefaultConfig ==
    [minLevel |-> "undefined", filter |-> "undefined", batchSize |-> 1,
     flushInterval |-> 0, maxQueueSize |-> 0, rateLimit |-> 0,
     maxRetries |-> 0, retryDelay |-> 0]

\* new TransportSlot(transport, config).  The fields after `writes` are
\* history kept for the properties; the code does not read them.
NewSlot(cfg) ==
    [cfg |-> cfg,
     queue |-> <<>>,
     timer |-> FALSE,
     rateLimitCount |-> 0,
     rateLimitWindowStart |-> 0,
     flushPromise |-> NoPromise,
     nflush |-> 0,          \* doWrite activations started so far
     writes |-> <<>>,       \* flushPromise objects not settled yet, each with its doWrite activation
     offered |-> <<>>,      \* entries passed to enqueue
     checks |-> <<>>,       \* isRateLimited calls with rateLimit > 0: [t, ok]
     admitted |-> <<>>,     \* entries pushed to the queue
     since |-> <<>>,        \* entries pushed since the queue was last taken
     evicted |-> <<>>,
     takes |-> <<>>,        \* per activation: [batch, since]
     calls |-> <<>>,        \* transport.write calls: [act, payload, attempt, seq, busy, res]
     outcome |-> <<>>,      \* per activation: "running" | "delivered" | "dropped" | "rejected"
     delivered |-> <<>>,
     dropped |-> <<>>,
     origin |-> "configure",   \* "configure" | "addTransport"
     hostTimers |-> <<>>,      \* setTimeout calls neither fired nor cleared: Len(admitted) at the call
     fired |-> 0,              \* timer callbacks run so far
     destroyed |-> [done |-> FALSE, queue |-> <<>>, timer |-> FALSE, busy |-> FALSE,
                    act |-> NoPromise, calls |-> 0]]

\* the caller-supplied filter predicates of the model
FilterCall(f, entry) ==
    CASE f = "errorOnly" -> IF entry.level = "error" THEN "true" ELSE "false"
      [] f = "raises"    -> "raise"
      [] f = "raisesOnError" -> IF entry.level = "error" THEN "raise" ELSE "true"
      [] f = "notError"  -> IF entry.level = "error" THEN "false" ELSE "true"
      [] OTHER           -> "true"

SetSlot(st, s, rec) == [st EXCEPT !.slot[s] = rec]

ActIndex(sl, id) == CHOOSE i \in 1..Len(sl.writes) : sl.writes[i].id = id

HasAct(sl, id) == \E i \in 1..Len(sl.writes) : sl.writes[i].id = id

Act(sl, id) == sl.writes[ActIndex(sl, id)]

SetAct(sl, id, a) == [sl EXCEPT !.writes[ActIndex(sl, id)] = a]

\* ids of the activations of a slot that have not run to completion
Unfinished(sl) == {sl.writes[i].id : i \in {j \in 1..Len(sl.writes) : sl.writes[j].phase # "done"}}

---------------------------------------------------------------------------
\* TransportSlot.isRateLimited

\* isRateLimited comparing the counter with > in place of >=
IsRateLimitedOffByOne(sl, t) ==
    IF sl.cfg.rateLimit <= 0 THEN [limited |-> FALSE, slot |-> sl]
    ELSE LET reset == t - sl.rateLimitWindowStart >= WindowMs
             start == IF reset THEN t ELSE sl.rateLimitWindowStart
             count == IF reset THEN 0 ELSE sl.rateLimitCount
             lim   == count > sl.cfg.rateLimit
         IN [limited |-> lim,
             slot |-> [sl EXCEPT !.rateLimitWindowStart = start,
                                 !.rateLimitCount = IF lim THEN count ELSE count + 1,
                                 !.checks = Append(@, [t |-> t, ok |-> ~lim])]]

\* isRateLimited that resets only when more than the window has elapsed
IsRateLimitedStrict(sl, t) ==
    IF sl.cfg.rateLimit <= 0 THEN [limited |-> FALSE, slot |-> sl]
    ELSE LET reset == t - sl.rateLimitWindowStart > WindowMs
             start == IF reset THEN t ELSE sl.rateLimitWindowStart
             count == IF reset THEN 0 ELSE sl.rateLimitCount
             lim   == count >= sl.cfg.rateLimit
         IN [limited |-> lim,
             slot |-> [sl EXCEPT !.rateLimitWindowStart = start,
                                 !.rateLimitCount = IF lim THEN count ELSE count + 1,
                                 !.checks = Append(@, [t |-> t, ok |-> ~lim])]]

\* lines 143-153
IsRateLimited(sl, t) ==
    IF sl.cfg.rateLimit <= 0 THEN [limited |-> FALSE, slot |-> sl]
    ELSE LET reset == t - sl.rateLimitWindowStart >= WindowMs
             start == IF reset THEN t ELSE sl.rateLimitWindowStart
             count == IF reset THEN 0 ELSE sl.rateLimitCount
             lim   == count >= sl.cfg.rateLimit
         IN [limited |-> lim,
             slot |-> [sl EXCEPT !.rateLimitWindowStart = start,
                                 !.rateLimitCount = IF lim THEN count ELSE count + 1,
                                 !.checks = Append(@, [t |-> t, ok |-> ~lim])]]

---------------------------------------------------------------------------
\* TransportSlot.doWrite
\*
\* The threaded record st holds the variables being updated plus
\*   raised/cause : an exception is propagating to the caller of the API
\*   bad          : the oracle did not fit the calls actually made
\*   unhandled    : a promise nobody handles was rejected

\* number of transport.write calls made so far, over all Slots
CallCount(st) ==
    LET n[i \in 0..Len(st.slot)] ==
            IF i = 0 THEN 0 ELSE n[i - 1] + Len(st.slot[i].calls)
    IN n[Len(st.slot)]

\* Payload that always passes an array
PayloadAlwaysArray(batch) == [array |-> TRUE, items |-> batch]

\* line 125: one record is passed as a bare entry, more as an array
Payload(batch) ==
    IF Len(batch) = 1 THEN [array |-> FALSE, items |-> <<batch[1]>>]
    ELSE [array |-> TRUE, items |-> batch]

\* a promise reaction job of the microtask queue
Job(t, s, id, w, d, ok) == [t |-> t, s |-> s, id |-> id, w |-> w, d |-> d, ok |-> ok]

\* what a transport.write call with outcome o is recorded as
Res(o) ==
    CASE o \in {"ok", "resolved"} -> "ok"
      [] o \in {"throw", "rejected"} -> "fail"
      [] OTHER -> "pending"

\* line 131: `await result` on the promise that write returned suspends
\* doWrite.  When the promise is settled already the continuation is queued
\* at once, otherwise when it settles (WriteSettle).
Await(st, s, id, o, outs) ==
    LET sl == st.slot[s]
        a  == Act(sl, id)
    IN CASE o = "resolved" ->
              [SetSlot(st, s, SetAct(sl, id, [a EXCEPT !.phase = "settled"])) EXCEPT
                 !.micro = Append(@, Job("resume", s, id, 0, 0, TRUE)),
                 !.bad = @ \/ outs # <<>>]
         [] o = "rejected" ->
              [SetSlot(st, s, SetAct(sl, id, [a EXCEPT !.phase = "settled"])) EXCEPT
                 !.micro = Append(@, Job("resume", s, id, 0, 0, FALSE)),
                 !.fails = @ + 1,
                 !.bad = @ \/ outs # <<>>]
         [] OTHER ->
              [SetSlot(st, s, SetAct(sl, id, [a EXCEPT !.phase = "awaiting"]))
                 EXCEPT !.bad = @ \/ outs # <<>>]

\* the async function returns (how = "delivered", "dropped", "empty") or
\* throws (how = "rejected"): its promise settles and the reaction
\* registered by .finally() in flushNow is queued
Finish(st, s, id, how, outs) ==
    LET sl == st.slot[s]
        a  == Act(sl, id)
        sl2 == [SetAct(sl, id, [a EXCEPT !.phase = "done"]) EXCEPT
                  !.outcome[id] = how,
                  !.delivered = IF how = "delivered" THEN Append(@, a.batch) ELSE @,
                  !.dropped = IF how = "dropped" THEN Append(@, a.batch) ELSE @]
    IN [SetSlot(st, s, sl2) EXCEPT
          !.micro = Append(@, Job("finally", s, id, 0, 0, how # "rejected")),
          !.bad = @ \/ outs # <<>>]

RECURSIVE WriteLoop(_, _, _, _)
RECURSIVE Catch(_, _, _, _)

\* Catch, but the error is thrown again once the retries are exhausted
CatchRethrow(st, s, id, outs) ==
    LET sl == st.slot[s]
        a  == Act(sl, id)
    IN IF a.attempt >= sl.cfg.maxRetries
       THEN Finish(st, s, id, "rejected", outs)
       ELSE LET a2 == [a EXCEPT !.attempt = @ + 1] IN
            IF sl.cfg.retryDelay > 0
            THEN [SetSlot(st, s, SetAct(sl, id, [a2 EXCEPT !.phase = "sleeping"]))
                    EXCEPT !.bad = @ \/ outs # <<>>]
            ELSE WriteLoop(SetSlot(st, s, SetAct(sl, id, a2)), s, id, outs)

\* Catch, but giving up one attempt early
CatchEarly(st, s, id, outs) ==
    LET sl == st.slot[s]
        a  == Act(sl, id)
    IN IF a.attempt + 1 >= sl.cfg.maxRetries
       THEN Finish(st, s, id, "dropped", outs)
       ELSE LET a2 == [a EXCEPT !.attempt = @ + 1] IN
            IF sl.cfg.retryDelay > 0
            THEN [SetSlot(st, s, SetAct(sl, id, [a2 EXCEPT !.phase = "sleeping"]))
                    EXCEPT !.bad = @ \/ outs # <<>>]
            ELSE WriteLoop(SetSlot(st, s, SetAct(sl, id, a2)), s, id, outs)

\* Catch, but allowing one retry more
CatchLate(st, s, id, outs) ==
    LET sl == st.slot[s]
        a  == Act(sl, id)
    IN IF a.attempt > sl.cfg.maxRetries
       THEN Finish(st, s, id, "dropped", outs)
       ELSE LET a2 == [a EXCEPT !.attempt = @ + 1] IN
            IF sl.cfg.retryDelay > 0
            THEN [SetSlot(st, s, SetAct(sl, id, [a2 EXCEPT !.phase = "sleeping"]))
                    EXCEPT !.bad = @ \/ outs # <<>>]
            ELSE WriteLoop(SetSlot(st, s, SetAct(sl, id, a2)), s, id, outs)

\* Catch, but the in-flight guard is released while doWrite sleeps
CatchReleases(st, s, id, outs) ==
    LET sl == st.slot[s]
        a  == Act(sl, id)
    IN IF a.attempt >= sl.cfg.maxRetries
       THEN Finish(st, s, id, "dropped", outs)
       ELSE LET a2 == [a EXCEPT !.attempt = @ + 1] IN
            IF sl.cfg.retryDelay > 0
            THEN [SetSlot(st, s, [SetAct(sl, id, [a2 EXCEPT !.phase = "sleeping"])
                                    EXCEPT !.flushPromise = NoPromise])
                    EXCEPT !.bad = @ \/ outs # <<>>]
            ELSE WriteLoop(SetSlot(st, s, SetAct(sl, id, a2)), s, id, outs)

\* lines 133-139: the catch block after a failed attempt
Catch(st, s, id, outs) ==
    LET sl == st.slot[s]
        a  == Act(sl, id)
    IN IF a.attempt >= sl.cfg.maxRetries
       THEN Finish(st, s, id, "dropped", outs)
       ELSE LET a2 == [a EXCEPT !.attempt = @ + 1] IN
            IF sl.cfg.retryDelay > 0
            THEN [SetSlot(st, s, SetAct(sl, id, [a2 EXCEPT !.phase = "sleeping"]))
                    EXCEPT !.bad = @ \/ outs # <<>>]
            ELSE WriteLoop(SetSlot(st, s, SetAct(sl, id, a2)), s, id, outs)

\* WriteLoop without the try block: a raised error leaves doWrite
WriteLoopNoTry(st, s, id, outs) ==
    IF outs = <<>> THEN [st EXCEPT !.bad = TRUE]
    ELSE LET sl == st.slot[s]
             a  == Act(sl, id)
             o  == Head(outs)
             call == [act |-> id, payload |-> Payload(a.batch), attempt |-> a.attempt,
                      seq |-> CallCount(st) + 1,
                      busy |-> Unfinished(sl) \ {id},
                      res |-> Res(o)]
             sl2 == [sl EXCEPT !.calls = Append(@, call)]
             st2 == SetSlot(st, s, sl2)
         IN CASE o = "ok" -> Finish(st2, s, id, "delivered", Tail(outs))
              [] o = "throw" ->
                   [st2 EXCEPT !.fails = @ + 1, !.raised = TRUE, !.cause = "write",
                               !.bad = @ \/ Tail(outs) # <<>>]
              [] OTHER -> Await(st2, s, id, o, Tail(outs))

\* WriteLoop whose retries leave out the first entry of the batch
WriteLoopPartial(st, s, id, outs) ==
    IF outs = <<>> THEN [st EXCEPT !.bad = TRUE]
    ELSE LET sl == st.slot[s]
             a  == Act(sl, id)
             o  == Head(outs)
             b  == IF a.attempt > 0 /\ Len(a.batch) > 1 THEN Tail(a.batch) ELSE a.batch
             call == [act |-> id, payload |-> Payload(b), attempt |-> a.attempt,
                      seq |-> CallCount(st) + 1,
                      busy |-> Unfinished(sl) \ {id},
                      res |-> Res(o)]
             sl2 == [sl EXCEPT !.calls = Append(@, call)]
             st2 == SetSlot(st, s, sl2)
         IN CASE o = "ok" -> Finish(st2, s, id, "delivered", Tail(outs))
              [] o = "throw" ->
                   Catch([st2 EXCEPT !.fails = @ + 1], s, id, Tail(outs))
              [] OTHER -> Await(st2, s, id, o, Tail(outs))

\* lines 128-132: one turn of the while loop, from the transport.write call
WriteLoop(st, s, id, outs) ==
    IF outs = <<>> THEN [st EXCEPT !.bad = TRUE]
    ELSE LET sl == st.slot[s]
             a  == Act(sl, id)
             o  == Head(outs)
             call == [act |-> id, payload |-> Payload(a.batch), attempt |-> a.attempt,
                      seq |-> CallCount(st) + 1,
                      busy |-> Unfinished(sl) \ {id},
                      res |-> Res(o)]
             sl2 == [sl EXCEPT !.calls = Append(@, call)]
             st2 == SetSlot(st, s, sl2)
         IN CASE o = "ok" -> Finish(st2, s, id, "delivered", Tail(outs))
              [] o = "throw" ->
                   Catch([st2 EXCEPT !.fails = @ + 1], s, id, Tail(outs))
              [] OTHER -> Await(st2, s, id, o, Tail(outs))

\* lines 123-127: entry of doWrite
DoWrite(st, s, id, outs) ==
    IF Act(st.slot[s], id).batch = <<>> THEN Finish(st, s, id, "empty", outs)
    ELSE WriteLoop(st, s, id, outs)

---------------------------------------------------------------------------
\* TransportSlot.flushNow, armTimer, enqueue

\* the promise flushNow returned for caller w is fulfilled (w = 0: void)
Fulfil(st, s, w) ==
    IF w = 0 THEN st ELSE [st EXCEPT !.waiters[w].left = @ \ {s}]

\* ... or rejected
Reject(st, s, w) ==
    IF w = 0 THEN [st EXCEPT !.unhandled = TRUE]
    ELSE [st EXCEPT !.waiters[w].rejected = TRUE]

\* the timer is left as it is
ClearTimerNever(sl) == sl

\* if (this.timer !== null) { clearTimeout(this.timer); this.timer = null; }
ClearTimer(sl) ==
    IF sl.timer
    THEN [sl EXCEPT !.timer = FALSE,
                    !.hostTimers = SubSeq(@, 1, Len(@) - 1)]
    ELSE sl

InFlightNever(sl) == FALSE

\* line 103: is a flush in flight?
InFlight(sl) == sl.flushPromise # NoPromise

\* what flushNow returns besides a flushPromise (which is named by its
\* number): Promise.resolve() of line 106, or the promise of line 104
ResolvedPromise == 0

ChainPromise == -1

ChainAsDirect(w, d) == [t |-> "direct", w |-> w, d |-> d]

\* line 104: the reaction .then(() => this.flushNow()) registered on
\* flushPromise; the promise this .then() returns goes to flush() call w
\* (0: to nobody), d promises of line 104 away from the Promise.all
ChainReaction(w, d) == [t |-> "chain", w |-> w, d |-> d]

\* x.then(...) called for flush() call w on the promise x that flushNow
\* returned, by Promise.all (d = 0) or by the job that makes a promise of
\* line 104 follow x (d > 0): a fulfilled x queues the reaction at once, a
\* pending flushPromise stores it, the promise of line 104 has it in its
\* ChainReaction already
Then(st, s, x, w, d) ==
    LET sl == st.slot[s] IN
    IF x = ChainPromise THEN st
    ELSE IF x = ResolvedPromise
    THEN [st EXCEPT !.micro = Append(@, Job("direct", s, 0, w, d, TRUE))]
    ELSE IF HasAct(sl, x)
    THEN LET a == Act(sl, x) IN
         SetSlot(st, s, SetAct(sl, x, [a EXCEPT !.reactions =
                                          Append(@, [t |-> "direct", w |-> w, d |-> d])]))
    ELSE [st EXCEPT !.micro = Append(@, Job("direct", s, 0, w, d,
                                            sl.outcome[x] # "rejected"))]

\* a reaction of line 104 has called flushNow and resolves its own promise
\* with the promise x it got: the job that will call x.then is queued.  This
\* holds as well for the chain that starts at a promise `void` dropped
\* (w = 0, lines 72 and 97): that promise follows x like any other, only
\* nobody reacts to it.
Adopt(st, s, x, w, d) ==
    [st EXCEPT !.micro = Append(@, Job("adopt", s, x, w, d, TRUE))]

\* history: flush() call w (0: nobody) now waits behind the write id of Slot s
Behind(ws, w, s, id) ==
    IF w = 0 THEN ws ELSE [ws EXCEPT ![w].behind[s] = Append(@, id)]

\* flushNow that leaves the entries it takes in the queue
FlushNowKeepsQueue(st, s, w, d, outs) ==
    LET sl == st.slot[s] IN
    IF InFlight(sl)
    THEN LET a == Act(sl, sl.flushPromise)
             a2 == [a EXCEPT !.reactions = Append(@, ChainReaction(w, d))]
         IN [SetSlot(st, s, SetAct(sl, sl.flushPromise, a2))
               EXCEPT !.ret = ChainPromise,
                      !.waiters = Behind(@, w, s, sl.flushPromise),
                      !.bad = @ \/ outs # <<>>]
    ELSE IF sl.queue = <<>>
    THEN [st EXCEPT !.ret = ResolvedPromise, !.bad = @ \/ outs # <<>>]
    ELSE LET id == sl.nflush + 1
             a  == [id |-> id, batch |-> sl.queue, attempt |-> 0, phase |-> "running",
                    reactions |-> <<>>]
             sl2 == [ClearTimer(sl) EXCEPT
                               !.nflush = id,
                               !.flushPromise = id,
                               !.writes = Append(@, a),
                               !.takes = Append(@, [batch |-> sl.queue, since |-> sl.since]),
                               !.since = <<>>,
                               !.outcome = Append(@, "running")]
         IN [DoWrite(SetSlot(st, s, sl2), s, id, outs) EXCEPT !.ret = id]

\* lines 101-121, called for flush() call w (0: for nobody), d promises of
\* line 104 away from the Promise.all; `ret` is the promise returned
FlushNow(st, s, w, d, outs) ==
    LET sl == st.slot[s] IN
    IF InFlight(sl)
    THEN \* line 104: flushPromise.then(() => this.flushNow())
         LET a == Act(sl, sl.flushPromise)
             a2 == [a EXCEPT !.reactions = Append(@, ChainReaction(w, d))]
         IN [SetSlot(st, s, SetAct(sl, sl.flushPromise, a2))
               EXCEPT !.ret = ChainPromise,
                      !.waiters = Behind(@, w, s, sl.flushPromise),
                      !.bad = @ \/ outs # <<>>]
    ELSE IF sl.queue = <<>>
    THEN \* line 106: Promise.resolve()
         [st EXCEPT !.ret = ResolvedPromise, !.bad = @ \/ outs # <<>>]
    ELSE LET id == sl.nflush + 1
             a  == [id |-> id, batch |-> sl.queue, attempt |-> 0, phase |-> "running",
                    reactions |-> <<>>]
             sl2 == [ClearTimer(sl) EXCEPT
                               !.queue = <<>>,
                               !.nflush = id,
                               !.flushPromise = id,
                               !.writes = Append(@, a),
                               !.takes = Append(@, [batch |-> sl.queue, since |-> sl.since]),
                               !.since = <<>>,
                               !.outcome = Append(@, "running")]
         IN [DoWrite(SetSlot(st, s, sl2), s, id, outs) EXCEPT !.ret = id]

\* armTimer without the guard on this.timer
ArmTimerAgain(sl) ==
    IF sl.cfg.flushInterval <= 0 THEN sl
    ELSE [sl EXCEPT !.timer = TRUE, !.hostTimers = Append(@, Len(sl.admitted))]

\* armTimer that never schedules anything
ArmTimerNever(sl) == sl

\* lines 93-99 (the callback is TimerFire)
ArmTimer(sl) ==
    IF sl.timer \/ sl.cfg.flushInterval <= 0 THEN sl
    ELSE [sl EXCEPT !.timer = TRUE, !.hostTimers = Append(@, Len(sl.admitted))]

\* filtering stage without the minLevel test
PassesFiltersNoMin(sl, entry) ==
    IF sl.cfg.filter = "undefined" THEN "true"
    ELSE FilterCall(sl.cfg.filter, entry)

\* filtering stage that lets an entry pass when either test accepts it
PassesFiltersOr(sl, entry) ==
    IF sl.cfg.minLevel = "undefined" \/ sl.cfg.filter = "undefined"
    THEN (IF sl.cfg.minLevel # "undefined"
             /\ IndexOf(entry.level) < IndexOf(sl.cfg.minLevel) THEN "false"
          ELSE IF sl.cfg.filter = "undefined" THEN "true"
          ELSE FilterCall(sl.cfg.filter, entry))
    ELSE IF IndexOf(entry.level) >= IndexOf(sl.cfg.minLevel) THEN "true"
    ELSE FilterCall(sl.cfg.filter, entry)

\* lines 53-59: "true", "false" or "raise"
PassesFilters(sl, entry) ==
    IF sl.cfg.minLevel # "undefined"
       /\ IndexOf(entry.level) < IndexOf(sl.cfg.minLevel) THEN "false"
    ELSE IF sl.cfg.filter = "undefined" THEN "true"
    ELSE FilterCall(sl.cfg.filter, entry)

\* Push with unshift in place of push
PushFront(sl, entry) ==
    LET pushed == <<entry>> \o sl.queue
        over == sl.cfg.maxQueueSize > 0 /\ Len(pushed) > sl.cfg.maxQueueSize
    IN [sl EXCEPT !.queue = IF over THEN Tail(pushed) ELSE pushed,
                  !.admitted = Append(@, entry),
                  !.since = Append(@, entry),
                  !.evicted = IF over THEN Append(@, Head(pushed)) ELSE @]

\* Push that evicts the newest entry
PushEvictNewest(sl, entry) ==
    LET pushed == Append(sl.queue, entry)
        over == sl.cfg.maxQueueSize > 0 /\ Len(pushed) > sl.cfg.maxQueueSize
    IN [sl EXCEPT !.queue = IF over THEN sl.queue ELSE pushed,
                  !.admitted = Append(@, entry),
                  !.since = Append(@, entry),
                  !.evicted = IF over THEN Append(@, entry) ELSE @]

\* Push that never evicts
PushNoEvict(sl, entry) ==
    [sl EXCEPT !.queue = Append(@, entry),
               !.admitted = Append(@, entry),
               !.since = Append(@, entry)]

\* lines 65-68: push, then evict the oldest
Push(sl, entry) ==
    LET pushed == Append(sl.queue, entry)
        over == sl.cfg.maxQueueSize > 0 /\ Len(pushed) > sl.cfg.maxQueueSize
    IN [sl EXCEPT !.queue = IF over THEN Tail(pushed) ELSE pushed,
                  !.admitted = Append(@, entry),
                  !.since = Append(@, entry),
                  !.evicted = IF over THEN Append(@, Head(pushed)) ELSE @]

\* trigger policy that waits for one entry more than batchSize
ShouldFlushLate(sl) == sl.cfg.batchSize <= 1 \/ Len(sl.queue) > sl.cfg.batchSize

\* lines 70-71: the trigger policy of enqueue
ShouldFlush(sl) == sl.cfg.batchSize <= 1 \/ Len(sl.queue) >= sl.cfg.batchSize

\* enqueue that consults the rate limiter before the filters
EnqueueRateFirst(st, s, entry, outs) ==
    LET sl0 == [st.slot[s] EXCEPT !.offered = Append(@, entry)]
        st0 == SetSlot(st, s, sl0)
        rl == IsRateLimited(sl0, st.now)
        f == PassesFilters(sl0, entry)
    IN IF rl.limited
       THEN [SetSlot(st0, s, rl.slot) EXCEPT !.bad = @ \/ outs # <<>>]
       ELSE IF f = "raise"
       THEN [SetSlot(st0, s, rl.slot) EXCEPT !.raised = TRUE, !.cause = "filter",
                                            !.bad = @ \/ outs # <<>>]
       ELSE IF f = "false"
       THEN [SetSlot(st0, s, rl.slot) EXCEPT !.bad = @ \/ outs # <<>>]
       ELSE LET sl1 == Push(rl.slot, entry) IN
            IF ShouldFlush(sl1)
            THEN FlushNow(SetSlot(st0, s, sl1), s, 0, 0, outs)
            ELSE [SetSlot(st0, s, ArmTimer(sl1)) EXCEPT !.bad = @ \/ outs # <<>>]

\* lines 52-76
Enqueue(st, s, entry, outs) ==
    LET sl0 == [st.slot[s] EXCEPT !.offered = Append(@, entry)]
        st0 == SetSlot(st, s, sl0)
        f == PassesFilters(sl0, entry)
    IN IF f = "raise"
       THEN [st0 EXCEPT !.raised = TRUE, !.cause = "filter", !.bad = @ \/ outs # <<>>]
       ELSE IF f = "false" THEN [st0 EXCEPT !.bad = @ \/ outs # <<>>]
       ELSE LET rl == IsRateLimited(sl0, st.now) IN
            IF rl.limited
            THEN [SetSlot(st0, s, rl.slot) EXCEPT !.bad = @ \/ outs # <<>>]
            ELSE LET sl1 == Push(rl.slot, entry) IN
                 IF ShouldFlush(sl1)
                 THEN FlushNow(SetSlot(st0, s, sl1), s, 0, 0, outs)
                 ELSE [SetSlot(st0, s, ArmTimer(sl1)) EXCEPT !.bad = @ \/ outs # <<>>]

---------------------------------------------------------------------------
\* CoreLogger

ShouldLog(level) == IndexOf(level) >= IndexOf(logger.level)

\* the oracle gives no outcomes to the slots ids
Unused(oracle, ids) == \A i \in 1..Len(ids) : oracle[ids[i]] = <<>>

\* dispatch that walks the Slots from the last to the first
RECURSIVE DispatchReverse(_, _, _, _)
DispatchReverse(st, ids, entry, oracle) ==
    IF ids = <<>> THEN st
    ELSE LET n == Len(ids)
             st1 == Enqueue(st, ids[n], entry, oracle[ids[n]])
         IN IF st1.raised
            THEN [st1 EXCEPT !.bad = @ \/ ~Unused(oracle, SubSeq(ids, 1, n - 1))]
            ELSE DispatchReverse(st1, SubSeq(ids, 1, n - 1), entry, oracle)

\* dispatch that stops at the first Slot whose write has not completed
RECURSIVE DispatchStopsAtBusy(_, _, _, _)
DispatchStopsAtBusy(st, ids, entry, oracle) ==
    IF ids = <<>> THEN st
    ELSE IF st.slot[Head(ids)].flushPromise # NoPromise
    THEN [st EXCEPT !.bad = @ \/ ~Unused(oracle, ids)]
    ELSE LET st1 == Enqueue(st, Head(ids), entry, oracle[Head(ids)]) IN
         IF st1.raised THEN [st1 EXCEPT !.bad = @ \/ ~Unused(oracle, Tail(ids))]
         ELSE DispatchStopsAtBusy(st1, Tail(ids), entry, oracle)

\* for (const slot of this.slots) slot.enqueue(entry)
RECURSIVE Dispatch(_, _, _, _)
Dispatch(st, ids, entry, oracle) ==
    IF ids = <<>> THEN st
    ELSE LET st1 == Enqueue(st, Head(ids), entry, oracle[Head(ids)]) IN
         IF st1.raised THEN [st1 EXCEPT !.bad = @ \/ ~Unused(oracle, Tail(ids))]
         ELSE Dispatch(st1, Tail(ids), entry, oracle)

\* flush that goes on to the next Slot only when the Slot before it is idle
RECURSIVE FlushEachSerial(_, _, _, _)
FlushEachSerial(st, ids, w, oracle) ==
    IF ids = <<>> THEN st
    ELSE LET st1 == FlushNow(st, Head(ids), w, 0, oracle[Head(ids)])
             st2 == Then(st1, Head(ids), st1.ret, w, 0)
         IN IF st2.slot[Head(ids)].flushPromise # NoPromise
            THEN [st2 EXCEPT !.bad = @ \/ ~Unused(oracle, Tail(ids))]
            ELSE FlushEachSerial(st2, Tail(ids), w, oracle)

\* this.slots.map(s => s.flush()): the state after the calls and the
\* promises they returned, in the order of the Slots
RECURSIVE FlushMap(_, _, _, _)
FlushMap(st, ids, w, oracle) ==
    IF ids = <<>> THEN [st |-> st, ps |-> <<>>]
    ELSE LET st1 == FlushNow(st, Head(ids), w, 0, oracle[Head(ids)])
             r == FlushMap(st1, Tail(ids), w, oracle)
         IN [st |-> r.st, ps |-> <<st1.ret>> \o r.ps]

\* Promise.all goes through the array map returned and calls then() on
\* each promise
RECURSIVE ThenAll(_, _, _, _)
ThenAll(st, ids, ps, w) ==
    IF ids = <<>> THEN st
    ELSE ThenAll(Then(st, Head(ids), Head(ps), w, 0), Tail(ids), Tail(ps), w)

\* Promise.all(this.slots.map(s => s.flush())) for flush() call w
FlushEach(st, ids, w, oracle) ==
    LET r == FlushMap(st, ids, w, oracle) IN ThenAll(r.st, ids, r.ps, w)

\* property p of the LogConfig is not undefined
Has(config, p) == p \in config.has

IsValidLevel(value) == value \in VALID_LEVELS

IsValidMode(value) == value \in VALID_MODES

\* validateConfig: "ok", or the property whose check throws
ValidateConfig(config) ==
    IF Has(config, "level") /\ ~IsValidLevel(config.level) THEN "level"
    ELSE IF Has(config, "mode") /\ ~IsValidMode(config.mode) THEN "mode"
    ELSE IF Has(config, "serviceName") /\ Trim(config.serviceName) = <<>>
         THEN "serviceName"
    ELSE "ok"

\* destroy that leaves the timer armed
DestroyKeepsTimer(sl) ==
    [sl EXCEPT !.destroyed = [done |-> TRUE, queue |-> sl.queue, timer |-> sl.timer,
                              busy |-> sl.flushPromise # NoPromise,
                              act |-> sl.flushPromise, calls |-> Len(sl.calls)]]

\* destroy that also empties the queue
DestroyDropsQueue(sl) ==
    [ClearTimer(sl) EXCEPT
               !.queue = <<>>,
               !.destroyed = [done |-> TRUE, queue |-> sl.queue, timer |-> sl.timer,
                              busy |-> sl.flushPromise # NoPromise,
                              act |-> sl.flushPromise, calls |-> Len(sl.calls)]]

\* TransportSlot.destroy: the pending timer is cleared, nothing else changes
\* (`destroyed` is history: what the Slot held at that moment)
Destroy(sl) ==
    [ClearTimer(sl) EXCEPT
               !.destroyed = [done |-> TRUE, queue |-> sl.queue, timer |-> sl.timer,
                              busy |-> sl.flushPromise # NoPromise,
                              act |-> sl.flushPromise, calls |-> Len(sl.calls)]]

\* a transports element is a TransportConfig (wrapped) or a plain LogTransport
IsTransportConfig(v) == v.wrapped

ToSlot(v) == IF IsTransportConfig(v) THEN NewSlot(v.cfg) ELSE NewSlot(DefaultConfig)

\* configure that assigns level, mode and serviceName whether present or not
AssignAll(lg, sl, config) ==
    [logger |-> [lg EXCEPT !.level = config.level, !.mode = config.mode,
                           !.serviceName = config.serviceName],
     slot |-> sl]

\* the assignments of configure, made without validateConfig
Assign(lg, sl, config) ==
    LET lg1 == [lg EXCEPT
                  !.level = IF Has(config, "level") THEN config.level ELSE @,
                  !.mode = IF Has(config, "mode") THEN config.mode ELSE @,
                  !.serviceName = IF Has(config, "serviceName")
                                  THEN config.serviceName ELSE @]
        n == Len(sl)
        k == Len(config.transports)
    IN IF Has(config, "transports")
       THEN [logger |-> [lg1 EXCEPT !.slots = [i \in 1..k |-> n + i]],
             slot |-> [i \in 1..n |-> IF i \in Range(lg.slots) THEN Destroy(sl[i])
                                      ELSE sl[i]]
                      \o [i \in 1..k |-> ToSlot(config.transports[i])]]
       ELSE [logger |-> lg1, slot |-> sl]

\* configure that validates after it has assigned
ConfiguredThenValidated(lg, sl, config) ==
    LET r == Assign(lg, sl, config) IN
    [raised |-> ValidateConfig(config) # "ok", logger |-> r.logger, slot |-> r.slot]

\* CoreLogger.configure on logger lg and Slot table sl
Configured(lg, sl, config) ==
    IF ValidateConfig(config) # "ok"
    THEN [raised |-> TRUE, logger |-> lg, slot |-> sl]
    ELSE LET r == Assign(lg, sl, config) IN
         [raised |-> FALSE, logger |-> r.logger, slot |-> r.slot]

\* addTransport that puts the new Slot first
AddSlotFirst(lg, sl, cfg) ==
    [logger |-> [lg EXCEPT !.slots = <<Len(sl) + 1>> \o @],
     slot |-> Append(sl, [NewSlot(cfg) EXCEPT !.origin = "addTransport"])]

\* CoreLogger.addTransport: this.slots.push(new TransportSlot(...))
AddSlot(lg, sl, cfg) ==
    [logger |-> [lg EXCEPT !.slots = Append(@, Len(sl) + 1)],
     slot |-> Append(sl, [NewSlot(cfg) EXCEPT !.origin = "addTransport"])]

---------------------------------------------------------------------------
\* Promise reactions (microtasks)

\* the promise that flushNow returned from line 104 for call w has a
\* reaction when the call is a flush() (Promise.all reacts to it); when the
\* caller dropped it with `void` (w = 0) the chain ends one promise earlier
Dropped(w) == IF w = 0 THEN 1 ELSE 0

\* the callback of .finally() at lines 117-119 has run as the reaction to
\* the promise of doWrite: the guard is cleared.  The promise that
\* .finally() returned (flushPromise) is not settled yet: the callback's
\* result is awaited first, which queues the value thunk and, because that
\* yields a promise, the job that will call its then()
RunFinally(st, j, outs) ==
    LET sl2 == [st.slot[j.s] EXCEPT !.flushPromise = NoPromise]
    IN [SetSlot(st, j.s, sl2) EXCEPT
          !.micro = @ \o <<[j EXCEPT !.t = "thunk"], [j EXCEPT !.t = "thenable"]>>,
          !.bad = @ \/ outs # <<>>]

\* Settle that queues only the reaction registered first
SettleFirstOnly(st, j, outs) ==
    LET sl == st.slot[j.s]
        a  == Act(sl, j.id)
        i  == ActIndex(sl, j.id)
        sl2 == [sl EXCEPT !.writes = SubSeq(@, 1, i - 1) \o SubSeq(@, i + 1, Len(@))]
        first == IF a.reactions = <<>> THEN <<>> ELSE <<Head(a.reactions)>>
        jobs == [k \in 1..Len(first) |->
                    Job(first[k].t, j.s, 0, first[k].w, first[k].d, j.ok)]
    IN [SetSlot(st, j.s, sl2) EXCEPT
          !.micro = @ \o jobs,
          !.unhandled = @ \/ (~j.ok /\ a.reactions = <<>>),
          !.bad = @ \/ outs # <<>>]

\* the promise flushNow returned at line 120 settles: its reactions are
\* queued in the order they were registered
Settle(st, j, outs) ==
    LET sl == st.slot[j.s]
        a  == Act(sl, j.id)
        i  == ActIndex(sl, j.id)
        sl2 == [sl EXCEPT !.writes = SubSeq(@, 1, i - 1) \o SubSeq(@, i + 1, Len(@))]
        jobs == [k \in 1..Len(a.reactions) |->
                    Job(a.reactions[k].t, j.s, 0, a.reactions[k].w,
                        a.reactions[k].d, j.ok)]
    IN [SetSlot(st, j.s, sl2) EXCEPT
          !.micro = @ \o jobs,
          !.unhandled = @ \/ (~j.ok /\ a.reactions = <<>>),
          !.bad = @ \/ outs # <<>>]

\* RunJob in which a rejected promise ends the batch without retry
RunJobNoRetry(st, j, outs) ==
    CASE j.t = "resume" ->
           IF j.ok THEN Finish(st, j.s, j.id, "delivered", outs)
           ELSE Finish(st, j.s, j.id, "dropped", outs)
      [] j.t = "finally" -> RunFinally(st, j, outs)
      [] j.t = "thunk" -> [st EXCEPT !.bad = @ \/ outs # <<>>]
      [] j.t = "thenable" ->
           [st EXCEPT !.micro = Append(@, [j EXCEPT !.t = "settle"]),
                      !.bad = @ \/ outs # <<>>]
      [] j.t = "settle" -> Settle(st, j, outs)
      [] j.t = "adopt" ->
           [Then(st, j.s, j.id, j.w, j.d) EXCEPT !.bad = @ \/ outs # <<>>]
      [] j.t = "direct" ->
           [(IF j.d > Dropped(j.w)
             THEN [st EXCEPT !.micro = Append(@, [j EXCEPT !.d = @ - 1])]
             ELSE IF j.ok THEN Fulfil(st, j.s, j.w) ELSE Reject(st, j.s, j.w))
              EXCEPT !.bad = @ \/ outs # <<>>]
      [] OTHER ->
           IF j.ok THEN LET r == FlushNow(st, j.s, j.w, j.d + 1, outs) IN
                        Adopt(r, j.s, r.ret, j.w, j.d + 1)
           ELSE [(IF j.d < Dropped(j.w) THEN Reject(st, j.s, j.w)
                  ELSE [st EXCEPT !.micro = Append(@, [j EXCEPT !.t = "direct"])])
                   EXCEPT !.bad = @ \/ outs # <<>>]

\* one promise reaction job of lines 104, 117-120 and 131
RunJob(st, j, outs) ==
    CASE j.t = "resume" ->
           \* doWrite continues after `await result`
           IF j.ok THEN Finish(st, j.s, j.id, "delivered", outs)
           ELSE Catch(st, j.s, j.id, outs)
      [] j.t = "finally" -> RunFinally(st, j, outs)
      [] j.t = "thunk" ->
           \* the value thunk: the promise of the awaited callback result settles
           [st EXCEPT !.bad = @ \/ outs # <<>>]
      [] j.t = "thenable" ->
           \* then() is called on that promise, settled by now: the reaction
           \* that settles flushPromise is queued
           [st EXCEPT !.micro = Append(@, [j EXCEPT !.t = "settle"]),
                      !.bad = @ \/ outs # <<>>]
      [] j.t = "settle" -> Settle(st, j, outs)
      [] j.t = "adopt" ->
           \* the promise of line 104 follows the promise flushNow returned
           [Then(st, j.s, j.id, j.w, j.d) EXCEPT !.bad = @ \/ outs # <<>>]
      [] j.t = "direct" ->
           \* a promise d promises of line 104 away from the Promise.all has
           \* settled: the next one settles, or the Promise.all element does;
           \* the last promise of a chain that `void` dropped settles unseen
           [(IF j.d > Dropped(j.w)
             THEN [st EXCEPT !.micro = Append(@, [j EXCEPT !.d = @ - 1])]
             ELSE IF j.ok THEN Fulfil(st, j.s, j.w) ELSE Reject(st, j.s, j.w))
              EXCEPT !.bad = @ \/ outs # <<>>]
      [] OTHER ->
           \* "chain": .then(() => this.flushNow()) of line 104; a rejection
           \* passes through to the promise .then() returned, which has a
           \* reaction unless it is the one `void` dropped
           IF j.ok THEN LET r == FlushNow(st, j.s, j.w, j.d + 1, outs) IN
                        Adopt(r, j.s, r.ret, j.w, j.d + 1)
           ELSE [(IF j.d < Dropped(j.w) THEN Reject(st, j.s, j.w)
                  ELSE [st EXCEPT !.micro = Append(@, [j EXCEPT !.t = "direct"])])
                   EXCEPT !.bad = @ \/ outs # <<>>]

---------------------------------------------------------------------------
\* Inputs

Throws(k) == [i \in 1..k |-> "throw"]

\* outcomes of the transport.write calls made by one slot in one action:
\* synchronous failures, then possibly a success or a promise (pending,
\* fulfilled or rejected)
OutSeqs ==
    {Throws(k) \o e : k \in 0..MaxFails,
                      e \in {<<>>, <<"ok">>, <<"async">>, <<"resolved">>, <<"rejected">>}}

\* a transport that always returns normally
OkSeqs == {<<>>, <<"ok">>}

NoOuts(ids) == [s \in ids |-> <<>>]

---------------------------------------------------------------------------
\* Actions

State ==
    [slot |-> slot, micro |-> micro, waiters |-> waiters, fails |-> fails,
     now |-> now, raised |-> FALSE, cause |-> "none", bad |-> FALSE,
     unhandled |-> status.unhandled, console |-> "none", ret |-> NoPromise]

NoEntry == [id |-> 0, level |-> "none"]

\* a LogConfig: `has` holds the names of the properties that are not undefined
NoConfig == [has |-> {}, level |-> "info", mode |-> "pretty", serviceName |-> <<>>,
             transports |-> <<>>]

\* the operation that ran to the state st is over: st is the next state
Commit(st, op, entry) ==
    \E r \in {st} :
        /\ ~r.bad
        /\ r.fails <= MaxFails
        /\ slot' = r.slot
        /\ micro' = r.micro
        /\ waiters' = r.waiters
        /\ fails' = r.fails
        /\ status' = [op |-> op, raised |-> r.raised, cause |-> r.cause,
                      unhandled |-> r.unhandled, entry |-> entry,
                      syncFails |-> r.fails - fails, arg |-> NoConfig,
                      console |-> r.console]

\* write that returns before the transports in silent mode
WriteSilentFirst(st, l, entry, oracle) ==
    IF ~ShouldLog(l) \/ logger.mode = "silent"
    THEN [st EXCEPT !.bad = ~Unused(oracle, logger.slots)]
    ELSE LET st1 == IF Len(logger.slots) > 0
                    THEN Dispatch(st, logger.slots, entry, oracle)
                    ELSE st
         IN IF st1.raised THEN st1 ELSE [st1 EXCEPT !.console = logger.mode]

\* CoreLogger.write: the level gate, the transports, then the console
\* ("none", "json" or "pretty": what console.log received)
Write(st, l, entry, oracle) ==
    IF ~ShouldLog(l) THEN [st EXCEPT !.bad = ~Unused(oracle, logger.slots)]
    ELSE LET st1 == IF Len(logger.slots) > 0
                    THEN Dispatch(st, logger.slots, entry, oracle)
                    ELSE st
         IN IF st1.raised \/ logger.mode = "silent" THEN st1
            ELSE [st1 EXCEPT !.console = logger.mode]

\* CoreLogger.debug/info/warn/error -> write
Log(l, oracle) ==
    LET entry == [id |-> nextId, level |-> l]
        r == Write(State, l, entry, oracle)
    IN /\ Commit(r, "log", entry)
       /\ nextId' = nextId + 1
       /\ UNCHANGED <<logger, now>>

\* CoreLogger.flush
Flush(oracle) ==
    LET w == Len(waiters) + 1
        ids == Range(logger.slots)
        st == [State EXCEPT !.waiters =
                 Append(@, [slots |-> ids, left |-> ids, rejected |-> FALSE,
                            busy |-> {s \in ids : InFlight(slot[s])},
                            overlap |-> {v \in 1..Len(waiters) : waiters[v].left # {}},
                            snap |-> [s \in ids |-> Len(slot[s].admitted)],
                            behind |-> [s \in ids |-> <<>>]])]
    IN /\ Commit(FlushEach(st, logger.slots, w, oracle), "flush", NoEntry)
       /\ UNCHANGED <<logger, now, nextId>>

\* the callback of armTimer (lines 95-98)
TimerFire(s, outs) ==
    /\ micro = <<>>
    /\ slot[s].hostTimers # <<>>
    /\ Commit(FlushNow(SetSlot(State, s, [slot[s] EXCEPT !.timer = FALSE,
                                                         !.hostTimers = Tail(@),
                                                         !.fired = @ + 1]), s, 0, 0, outs),
              "none", NoEntry)
    /\ UNCHANGED <<logger, now, nextId>>

\* sleep(retryDelay) is over: doWrite goes round its loop again
SleepExpire(s, id, outs) ==
    /\ micro = <<>>
    /\ HasAct(slot[s], id)
    /\ Act(slot[s], id).phase = "sleeping"
    /\ Commit(WriteLoop(SetSlot(State, s, SetAct(slot[s], id,
                          [Act(slot[s], id) EXCEPT !.phase = "running"])), s, id, outs),
              "none", NoEntry)
    /\ UNCHANGED <<logger, now, nextId>>

\* the promise a transport returned settles
WriteSettle(s, id, ok) ==
    /\ HasAct(slot[s], id)
    /\ Act(slot[s], id).phase = "awaiting"
    /\ LET sl == slot[s]
           n  == Len(sl.calls)
           sl2 == [SetAct(sl, id, [Act(sl, id) EXCEPT !.phase = "settled"]) EXCEPT
                     !.calls[n].res = IF ok THEN "ok" ELSE "fail"]
           r == [SetSlot(State, s, sl2) EXCEPT
                   !.micro = Append(@, Job("resume", s, id, 0, 0, ok)),
                   !.fails = IF ok THEN @ ELSE @ + 1]
       IN Commit(r, "none", NoEntry)
    /\ UNCHANGED <<logger, now, nextId>>

\* the event loop runs the oldest promise reaction
Microtask(outs) ==
    /\ micro # <<>>
    /\ Commit(RunJob([State EXCEPT !.micro = Tail(micro)], Head(micro), outs),
              "none", NoEntry)
    /\ UNCHANGED <<logger, now, nextId>>

\* CoreLogger.configure(config)
Configure(config) ==
    LET r == Configured(logger, slot, config) IN
    /\ logger' = r.logger
    /\ slot' = r.slot
    /\ status' = [op |-> "configure", raised |-> r.raised,
                  cause |-> IF r.raised THEN "config" ELSE "none",
                  unhandled |-> status.unhandled, entry |-> NoEntry,
                  syncFails |-> 0, arg |-> config, console |-> "none"]
    /\ UNCHANGED <<micro, waiters, now, nextId, fails>>

\* CoreLogger.addTransport(transport, cfg)
AddTransport(cfg) ==
    LET r == AddSlot(logger, slot, cfg) IN
    /\ logger' = r.logger
    /\ slot' = r.slot
    /\ status' = [op |-> "addTransport", raised |-> FALSE, cause |-> "none",
                  unhandled |-> status.unhandled, entry |-> NoEntry,
                  syncFails |-> 0, arg |-> NoConfig, console |-> "none"]
    /\ UNCHANGED <<micro, waiters, now, nextId, fails>>

StartTime == 1000

\* time passes
Tick ==
    /\ now < StartTime + MaxTicks * TickMs
    /\ now' = now + TickMs
    /\ status' = [status EXCEPT !.op = "none", !.raised = FALSE, !.cause = "none",
                                !.entry = NoEntry, !.syncFails = 0,
                                !.arg = NoConfig, !.console = "none"]
    /\ UNCHANGED <<logger, slot, micro, waiters, nextId, fails>>

SlotIds == 1..Len(slot)

ActIds(s) == 1..slot[s].nflush

\* timers, transport promises and promise reactions
Pipeline(outSeqs) ==
    \/ \E s \in SlotIds, outs \in outSeqs : TimerFire(s, outs)
    \/ \E s \in SlotIds : \E id \in ActIds(s), outs \in outSeqs : SleepExpire(s, id, outs)
    \/ \E s \in SlotIds : \E id \in ActIds(s), ok \in BOOLEAN : WriteSettle(s, id, ok)
    \/ \E outs \in outSeqs : Microtask(outs)

\* the calls of the application
Calls(levels, maxEntries, outSeqs) ==
    \/ /\ nextId <= maxEntries
       /\ \E l \in levels, oracle \in [Range(logger.slots) -> outSeqs] : Log(l, oracle)
    \/ /\ Len(waiters) < MaxFlushCalls
       /\ \E oracle \in [Range(logger.slots) -> outSeqs] : Flush(oracle)

Next ==
    \/ Calls({"info"}, MaxLifeEntries, OutSeqs)
    \/ Pipeline(OutSeqs)

---------------------------------------------------------------------------
\* Initial states: the logger after configure({ transports: [...] })

CfgRetry == [DefaultConfig EXCEPT !.maxRetries = 2]

CfgBatch == [DefaultConfig EXCEPT !.batchSize = 3, !.maxQueueSize = 2,
                                  !.flushInterval = 500, !.maxRetries = 1,
                                  !.retryDelay = 100]

Scenarios == {<<CfgRetry>>, <<CfgBatch>>}

InitWith(scenarios) ==
    /\ \E cfgs \in scenarios :
          /\ slot = [i \in 1..Len(cfgs) |-> NewSlot(cfgs[i])]
          /\ logger = [level |-> "info", mode |-> "pretty",
                       serviceName |-> <<"a", "p", "p">>,
                       slots |-> [i \in 1..Len(cfgs) |-> i]]
    /\ micro = <<>>
    /\ waiters = <<>>
    /\ now = StartTime
    /\ nextId = 1
    /\ fails = 0
    /\ status = [op |-> "none", raised |-> FALSE, cause |-> "none",
                 unhandled |-> FALSE, entry |-> NoEntry, syncFails |-> 0,
                 arg |-> NoConfig, console |-> "none"]

\* a batching Slot with a flush timer and retries
Init == InitWith({<<CfgBatch>>})

Spec == Init /\ [][Next]_vars

\* Fan-out: two slots, the first with a filter that raises on error entries
CfgRaises == [DefaultConfig EXCEPT !.filter = "raisesOnError"]

InitFanout == InitWith({<<CfgRaises, DefaultConfig>>})

NextFanout ==
    \/ Calls({"info", "error"}, MaxEntries, OkSeqs)
    \/ \E outs \in OkSeqs : Microtask(outs)

SpecFanout == InitFanout /\ [][NextFanout]_vars

\* Rate limiting: one immediate slot, a transport that never fails, a clock
CfgRate == [DefaultConfig EXCEPT !.rateLimit = 2]

InitRate == InitWith({<<CfgRate>>})

NextRate ==
    \/ Calls({"info"}, MaxRateEntries, OkSeqs)
    \/ \E outs \in OkSeqs : Microtask(outs)
    \/ Tick

SpecRate == InitRate /\ [][NextRate]_vars

\* the same Slot and clock, log calls and no flush() call
NextWindow ==
    \/ /\ nextId <= MaxRateEntries
       /\ \E oracle \in [Range(logger.slots) -> OkSeqs] : Log("info", oracle)
    \/ \E outs \in OkSeqs : Microtask(outs)
    \/ Tick

SpecWindow == InitRate /\ [][NextWindow]_vars

\* a batching Slot whose queue can reach batchSize, next to one whose
\* maxQueueSize is smaller than its batchSize
CfgSize == [DefaultConfig EXCEPT !.batchSize = 2, !.flushInterval = 500,
                                 !.maxRetries = 1, !.retryDelay = 100]

InitSize == InitWith({<<CfgSize>>, <<CfgBatch>>})

\* log calls and the pipeline, no flush() call
NextSize ==
    \/ /\ nextId <= MaxEntries
       /\ \E oracle \in [Range(logger.slots) -> OutSeqs] : Log("info", oracle)
    \/ Pipeline(OutSeqs)

SpecSize == InitSize /\ [][NextSize]_vars

\* an immediate Slot that retries at once, or the batching Slot of Spec,
\* driven by log calls and the pipeline only
InitOrder == InitWith(Scenarios)

SpecOrder == InitOrder /\ [][NextSize]_vars

\* A Slot that writes when its queue reaches batchSize, when its timer
\* fires and when flush() is called, and retries after a delay: log calls,
\* flush() calls and the pipeline in any order
InitGuard == InitWith({<<CfgSize>>})

SpecGuard == InitGuard /\ [][Next]_vars

\* One batching Slot with a flush timer and a destination that returns
\* normally
InitTimer == Init

NextTimer ==
    \/ /\ nextId <= MaxEntries
       /\ \E oracle \in [Range(logger.slots) -> OkSeqs] : Log("info", oracle)
    \/ /\ Len(waiters) < MaxFlushCalls
       /\ \E oracle \in [Range(logger.slots) -> OkSeqs] : Flush(oracle)
    \/ \E s \in SlotIds, outs \in OkSeqs : TimerFire(s, outs)
    \/ \E outs \in OkSeqs : Microtask(outs)

SpecTimer == InitTimer /\ [][NextTimer]_vars

\* a batching Slot whose queue reaches batchSize, or one whose queue does
\* not, with a flush timer, flush() calls and a destination that returns
\* normally
InitArm == InitWith({<<CfgSize>>, <<CfgBatch>>})

SpecArm == InitArm /\ [][NextTimer]_vars

\* Filtering: a Slot with minLevel, with a filter, or with both, next to a
\* plain one
CfgMin == [DefaultConfig EXCEPT !.minLevel = "warn"]

CfgAnd == [DefaultConfig EXCEPT !.minLevel = "warn", !.filter = "notError"]

CfgErrorOnly == [DefaultConfig EXCEPT !.filter = "errorOnly"]

InitFilter == InitWith({<<CfgMin, DefaultConfig>>, <<CfgAnd>>, <<CfgErrorOnly>>})

NextFilter ==
    \/ /\ nextId <= MaxEntries
       /\ \E l \in {"info", "warn", "error"}, oracle \in [Range(logger.slots) -> OkSeqs] :
             Log(l, oracle)
    \/ \E outs \in OkSeqs : Microtask(outs)

SpecFilter == InitFilter /\ [][NextFilter]_vars

\* Reconfiguration: configure and addTransport between log calls
CfgTimer == [DefaultConfig EXCEPT !.batchSize = 2, !.flushInterval = 500]

Plain == [wrapped |-> FALSE, cfg |-> DefaultConfig]

Wrapped(cfg) == [wrapped |-> TRUE, cfg |-> cfg]

\* configure({ transports: [{ transport, batchSize: 2, flushInterval: 500 }] })
Replace == [NoConfig EXCEPT !.has = {"transports"}, !.transports = <<Wrapped(CfgTimer)>>]

\* the LogConfig arguments of the model: three valid ones, four invalid ones
ConfigArgs ==
    {Replace,
     [NoConfig EXCEPT !.has = {"level", "serviceName"}, !.level = "error",
                      !.serviceName = <<" ", "s", " ">>],
     [NoConfig EXCEPT !.has = {"mode"}, !.mode = "silent"],
     [NoConfig EXCEPT !.has = {"level", "transports"}, !.level = "verbose",
                      !.transports = <<Plain>>],
     [NoConfig EXCEPT !.has = {"level", "mode"}, !.level = "warn", !.mode = "xml"],
     [NoConfig EXCEPT !.has = {"serviceName", "transports"},
                      !.serviceName = <<"\n", "\t">>, !.transports = <<Plain>>],
     [NoConfig EXCEPT !.has = {"serviceName"}, !.serviceName = <<>>]}

\* a transport that returns normally or returns a promise that fulfils
LifeSeqs == {<<>>, <<"ok">>, <<"async">>, <<"resolved">>}

InitLife == InitWith({<<DefaultConfig>>, <<CfgTimer>>})

NextLife ==
    \/ /\ nextId <= MaxLifeEntries
       /\ \E oracle \in [Range(logger.slots) -> LifeSeqs] : Log("info", oracle)
    \/ \E s \in SlotIds, outs \in LifeSeqs : TimerFire(s, outs)
    \/ \E s \in SlotIds : \E id \in ActIds(s) : WriteSettle(s, id, TRUE)
    \/ \E outs \in LifeSeqs : Microtask(outs)
    \/ /\ Len(slot) + Len(Replace.transports) <= MaxSlots
       /\ Configure(Replace)
    \/ /\ Len(slot) < MaxSlots
       /\ AddTransport(DefaultConfig)

SpecLife == InitLife /\ [][NextLife]_vars

\* the same Slots, with configure as the only reconfiguration
NextReplace ==
    \/ /\ nextId <= MaxLifeEntries
       /\ \E oracle \in [Range(logger.slots) -> LifeSeqs] : Log("info", oracle)
    \/ \E s \in SlotIds, outs \in LifeSeqs : TimerFire(s, outs)
    \/ \E s \in SlotIds : \E id \in ActIds(s) : WriteSettle(s, id, TRUE)
    \/ \E outs \in LifeSeqs : Microtask(outs)
    \/ /\ Len(slot) + Len(Replace.transports) <= MaxSlots
       /\ Configure(Replace)

SpecReplace == InitLife /\ [][NextReplace]_vars

\* the same Slots, with addTransport as the only reconfiguration and
\* destinations that return normally
NextAdd ==
    \/ /\ nextId <= MaxLifeEntries
       /\ \E oracle \in [Range(logger.slots) -> OkSeqs] : Log("info", oracle)
    \/ \E s \in SlotIds, outs \in OkSeqs : TimerFire(s, outs)
    \/ \E outs \in OkSeqs : Microtask(outs)
    \/ /\ Len(slot) < MaxSlots
       /\ AddTransport(DefaultConfig)

SpecAdd == InitLife /\ [][NextAdd]_vars

\* configure with valid and invalid arguments on a logger with one batching Slot
InitConfig == InitWith({<<CfgTimer>>})

NextConfig ==
    \/ /\ nextId <= MaxLifeEntries
       /\ \E l \in {"info", "error"}, oracle \in [Range(logger.slots) -> OkSeqs] :
             Log(l, oracle)
    \/ \E s \in SlotIds, outs \in OkSeqs : TimerFire(s, outs)
    \/ \E outs \in OkSeqs : Microtask(outs)
    \/ \E config \in ConfigArgs :
          /\ Len(slot) + Len(config.transports) <= MaxSlots
          /\ Configure(config)

SpecConfig == InitConfig /\ [][NextConfig]_vars

\* Two Slots, an immediate one and a batching one without timer, whose
\* destinations return promises that fulfil, reject or stay pending
CfgPair == [DefaultConfig EXCEPT !.batchSize = 2]

\* a transport that returns a promise: pending, fulfilled or rejected
AsyncSeqs == {<<>>, <<"async">>, <<"resolved">>, <<"rejected">>}

InitAll == InitWith({<<DefaultConfig, CfgPair>>})

NextAll ==
    \/ /\ nextId <= MaxPairEntries
       /\ \E oracle \in [Range(logger.slots) -> AsyncSeqs] : Log("info", oracle)
    \/ /\ Len(waiters) < MaxFlushCalls
       /\ \E oracle \in [Range(logger.slots) -> AsyncSeqs] : Flush(oracle)
    \/ \E s \in SlotIds : \E id \in ActIds(s), ok \in BOOLEAN : WriteSettle(s, id, ok)
    \/ \E outs \in AsyncSeqs : Microtask(outs)

SpecAll == InitAll /\ [][NextAll]_vars

\* The same two Slots when the destination of the first returns promises
\* that never settle
PendingSeqs == {<<>>, <<"async">>}

HungSeqs(s) == IF s = 1 THEN PendingSeqs ELSE AsyncSeqs

NextHung ==
    \/ /\ nextId <= MaxEntries
       /\ \E oracle \in [Range(logger.slots) -> AsyncSeqs] :
             /\ \A s \in Range(logger.slots) : oracle[s] \in HungSeqs(s)
             /\ Log("info", oracle)
    \/ /\ Len(waiters) < MaxFlushCalls
       /\ \E oracle \in [Range(logger.slots) -> AsyncSeqs] :
             /\ \A s \in Range(logger.slots) : oracle[s] \in HungSeqs(s)
             /\ Flush(oracle)
    \/ \E id \in ActIds(2), ok \in BOOLEAN : WriteSettle(2, id, ok)
    \/ /\ micro # <<>>
       /\ \E outs \in HungSeqs(Head(micro).s) : Microtask(outs)

SpecHung == InitAll /\ [][NextHung]_vars

\* One batching Slot and flush() calls that may overlap
InitTwice == InitWith({<<CfgPair>>})

NextTwice ==
    \/ /\ nextId <= MaxLifeEntries
       /\ \E oracle \in [Range(logger.slots) -> AsyncSeqs] : Log("info", oracle)
    \/ /\ Len(waiters) < MaxOverlap
       /\ \E oracle \in [Range(logger.slots) -> AsyncSeqs] : Flush(oracle)
    \/ \E s \in SlotIds : \E id \in ActIds(s), ok \in BOOLEAN : WriteSettle(s, id, ok)
    \/ \E outs \in AsyncSeqs : Microtask(outs)

SpecTwice == InitTwice /\ [][NextTwice]_vars

\* An immediate Slot or the batching one, and MaxCalls calls of the
\* application, log and flush() calls in any order and number.  The event
\* loop runs every ready reaction and every promise a destination returned
\* settles, fulfilled or rejected.
InitEnd == InitWith({<<DefaultConfig>>, <<CfgPair>>})

NextEnd ==
    \/ /\ (nextId - 1) + Len(waiters) < MaxCalls
       /\ \/ \E oracle \in [Range(logger.slots) -> AsyncSeqs] : Log("info", oracle)
          \/ \E oracle \in [Range(logger.slots) -> AsyncSeqs] : Flush(oracle)
    \/ \E s \in SlotIds : \E id \in ActIds(s), ok \in BOOLEAN : WriteSettle(s, id, ok)
    \/ \E outs \in AsyncSeqs : Microtask(outs)

SpecEnd == InitEnd /\ [][NextEnd]_vars /\ WF_vars(Pipeline(AsyncSeqs))

\* A batching Slot with a flush timer and no flush() call.  The event loop
\* runs every ready reaction and every due timer, and a destination's
\* promise settles: a pipeline step that stays possible is taken.
InitLive == InitWith({<<CfgTimer>>, <<CfgBatch>>})

NextLive ==
    \/ /\ nextId <= MaxLifeEntries
       /\ \E oracle \in [Range(logger.slots) -> OutSeqs] : Log("info", oracle)
    \/ Pipeline(OutSeqs)

SpecLive == InitLive /\ [][NextLive]_vars /\ WF_vars(Pipeline(OutSeqs))

\* A batching Slot with a flush timer and retries that configure replaces
\* while entries are queued or being written.  The event loop runs every
\* ready reaction and every due timer, and a destination's promise settles.
InitDestroy == InitWith({<<CfgSize>>})

\* configure({ transports: [] })
ReplaceNone == [NoConfig EXCEPT !.has = {"transports"}]

NextDestroy ==
    \/ /\ nextId <= MaxLifeEntries
       /\ \E oracle \in [Range(logger.slots) -> AsyncSeqs] : Log("info", oracle)
    \/ Pipeline(AsyncSeqs)
    \/ Configure(ReplaceNone)

SpecDestroy == InitDestroy /\ [][NextDestroy]_vars /\ WF_vars(Pipeline(AsyncSeqs))

\* A batching Slot with minLevel, filter, rate limit and flush timer, a
\* destination that returns promises, and a clock
CfgGate == [DefaultConfig EXCEPT !.minLevel = "warn", !.filter = "notError",
                                 !.rateLimit = 2, !.batchSize = 2,
                                 !.flushInterval = 500]

InitGate == InitWith({<<CfgGate>>})

\* a transport that returns a promise that fulfils
FulfilSeqs == {<<>>, <<"async">>, <<"resolved">>}

NextGate ==
    \/ /\ nextId <= MaxRateEntries
       /\ \E l \in {"info", "warn", "error"}, oracle \in [Range(logger.slots) -> FulfilSeqs] :
             Log(l, oracle)
    \/ \E s \in SlotIds, outs \in FulfilSeqs : TimerFire(s, outs)
    \/ \E s \in SlotIds : \E id \in ActIds(s) : WriteSettle(s, id, TRUE)
    \/ \E outs \in FulfilSeqs : Microtask(outs)
    \/ Tick

SpecGate == InitGate /\ [][NextGate]_vars

\* Two Slots with the same retry settings: the destination of the first
\* fails by raising, the destination of the second by returning a promise
\* that rejects
CfgOnce == [DefaultConfig EXCEPT !.maxRetries = 1, !.retryDelay = 100]

\* a transport that raises or returns normally
RaiseSeqs == {Throws(k) \o e : k \in 0..MaxFails, e \in {<<>>, <<"ok">>}}

SeqsOf(s) == IF s = 1 THEN RaiseSeqs ELSE AsyncSeqs

InitSame == InitWith({<<DefaultConfig, DefaultConfig>>, <<CfgOnce, CfgOnce>>})

NextSame ==
    \/ /\ nextId <= MaxLifeEntries
       /\ \E oracle \in [Range(logger.slots) -> OutSeqs] :
             /\ \A s \in Range(logger.slots) : oracle[s] \in SeqsOf(s)
             /\ Log("info", oracle)
    \/ \E s \in SlotIds : \E id \in ActIds(s), outs \in SeqsOf(s) : SleepExpire(s, id, outs)
    \/ \E s \in SlotIds : \E id \in ActIds(s), ok \in BOOLEAN : WriteSettle(s, id, ok)
    \/ /\ micro # <<>>
       /\ \E outs \in SeqsOf(Head(micro).s) : Microtask(outs)

SpecSame == InitSame /\ [][NextSame]_vars

---------------------------------------------------------------------------
\* Properties

CallsOf(sl, id) == SelectSeq(sl.calls, LAMBDA c : c.act = id)

\* C1: at most one destination write of a Slot is outstanding at any time:
\* no transport.write call (first attempt or retry) is made while another
\* doWrite of the same Slot has not run to completion.
C1_OneWriteInFlight ==
    \A s \in SlotIds :
        /\ Cardinality(Unfinished(slot[s])) <= 1
        /\ \A i \in 1..Len(slot[s].calls) : slot[s].calls[i].busy = {}

\* a write started by the timer is outstanding after a retry while entries
\* wait in the queue, and both a flush() call and a flush request that
\* nobody awaits (line 72 or 97) found the guard set and wait behind it
C1_Witness ==
    \E s \in SlotIds : \E i \in 1..Len(slot[s].writes) :
        LET a == slot[s].writes[i] IN
        /\ slot[s].queue # <<>>
        /\ slot[s].fired > 0
        /\ a.phase = "awaiting"
        /\ a.attempt > 0
        /\ \E k \in 1..Len(a.reactions) :
              a.reactions[k].t = "chain" /\ a.reactions[k].w # 0
        /\ \E k \in 1..Len(a.reactions) :
              a.reactions[k].t = "chain" /\ a.reactions[k].w = 0

\* C2: the concatenation, in write order, of the batches delivered by a Slot
\* is a subsequence of the sequence of entries it admitted.
C2_Fifo ==
    \A s \in SlotIds : IsSubseq(Flatten(slot[s].delivered), slot[s].admitted)

\* a batch of several entries was delivered and the entry admitted first
\* was not
C2_Witness ==
    \E s \in SlotIds :
        /\ \E i \in 1..Len(slot[s].delivered) : Len(slot[s].delivered[i]) >= 2
        /\ slot[s].admitted[1] \notin Range(Flatten(slot[s].delivered))

Resolved(w) == waiters[w].left = {} /\ ~waiters[w].rejected

\* entries of a slot that were accepted by the destination, dropped with
\* their batch or evicted
Settled(sl) ==
    Range(Flatten(sl.delivered)) \cup Range(Flatten(sl.dropped)) \cup Range(sl.evicted)

Pending(sl) ==
    Range(sl.queue) \cup
    UNION {Range(sl.writes[i].batch) :
             i \in {j \in 1..Len(sl.writes) : sl.writes[j].phase # "done"}}

\* C3: once the promise of flush() is resolved, every entry admitted to an
\* active Slot before the call was delivered, dropped after its retries or
\* evicted, and is neither queued nor in an unfinished write.
C3_FlushDrains ==
    \A w \in 1..Len(waiters) :
        Resolved(w) =>
            \A s \in waiters[w].slots : \A i \in 1..waiters[w].snap[s] :
                /\ slot[s].admitted[i] \in Settled(slot[s])
                /\ slot[s].admitted[i] \notin Pending(slot[s])

\* a flush() called while a write was in flight and with fewer queued
\* entries than batchSize has resolved, and the entries were delivered
C3_Witness ==
    \E w \in 1..Len(waiters) : \E s \in waiters[w].slots :
        /\ Resolved(w)
        /\ s \in waiters[w].busy
        /\ slot[s].cfg.batchSize > 1
        /\ Len(slot[s].admitted) < slot[s].cfg.batchSize
        /\ waiters[w].snap[s] >= 2
        /\ \A i \in 1..waiters[w].snap[s] :
              slot[s].admitted[i] \in Range(Flatten(slot[s].delivered))

\* C4: a failed destination write (raised or rejected, first attempt or
\* retry) never propagates: the log call returns normally, and no other
\* stretch of the pipeline raises or leaves a rejection unhandled.
C4_LogNeverRaises ==
    ~status.raised /\ ~status.unhandled

\* a log call during which the write failed on the first attempt and on a
\* retry
C4_Witness ==
    status.op = "log" /\ status.syncFails >= 2 /\ ~status.raised

\* C5: the promise returned by flush() never rejects, also when a batch is
\* dropped after its retries.
C5_FlushNeverRejects ==
    \A w \in 1..Len(waiters) : ~waiters[w].rejected

\* a flush() has resolved although a batch admitted before it was dropped
C5_Witness ==
    \E w \in 1..Len(waiters) : \E s \in waiters[w].slots :
        /\ Resolved(w)
        /\ \E i \in 1..waiters[w].snap[s] :
              slot[s].admitted[i] \in Range(Flatten(slot[s].dropped))

\* C6: dispatch(entry) never raises to its caller and passes the entry to
\* the enqueue of every active Slot, whatever a Slot's filter predicate or
\* destination does.
C6_DispatchTotal ==
    status.op = "log" =>
        /\ ~status.raised
        /\ \A s \in Range(logger.slots) : status.entry \in Range(slot[s].offered)

\* C7: in a Slot with maxQueueSize = N > 0, when more than N entries were
\* admitted since the queue was last taken, every write of the batch taken
\* next carries exactly the N most recently admitted entries, in admission
\* order.
C7_EvictionKeepsNewest ==
    \A s \in SlotIds :
        LET sl == slot[s]
            N  == sl.cfg.maxQueueSize
        IN N > 0 =>
             \A k \in 1..Len(sl.takes) :
                 Len(sl.takes[k].since) > N =>
                     /\ sl.takes[k].batch = Last(N, sl.takes[k].since)
                     /\ \A i \in 1..Len(sl.calls) :
                           sl.calls[i].act = k =>
                               sl.calls[i].payload.items = Last(N, sl.takes[k].since)

\* a batch was written after more than N >= 2 admissions
C7_Witness ==
    \E s \in SlotIds :
        /\ slot[s].cfg.maxQueueSize >= 2
        /\ \E i \in 1..Len(slot[s].calls) :
              Len(slot[s].takes[slot[s].calls[i].act].since) > slot[s].cfg.maxQueueSize

\* start of the rate window the i-th admission check falls in: the time of
\* the first check, or of the first check at least one window length after
\* the start of the previous window
RECURSIVE WinStart(_, _)
WinStart(checks, i) ==
    IF i = 1 THEN checks[1].t
    ELSE LET p == WinStart(checks, i - 1) IN
         IF checks[i].t - p >= WindowMs THEN checks[i].t ELSE p

\* C8: in a Slot with rateLimit = R > 0, of the entries checked within one
\* rate window exactly the first R are admitted and the others are dropped;
\* the first entry checked after the window has elapsed starts a new window
\* and is admitted.
C8_RateWindow ==
    \A s \in SlotIds :
        LET sl == slot[s]
            R  == sl.cfg.rateLimit
            oks == {i \in 1..Len(sl.checks) : sl.checks[i].ok}
        IN R > 0 =>
             /\ \A i \in 1..Len(sl.checks) :
                   sl.checks[i].ok <=>
                       Cardinality({j \in 1..i :
                           WinStart(sl.checks, j) = WinStart(sl.checks, i)}) <= R
             /\ Len(sl.admitted) = Cardinality(oks)

\* R+1 entries were checked in one window, the last was dropped, and an
\* entry checked after the window elapsed was admitted
C8_Witness ==
    \E s \in SlotIds :
        LET sl == slot[s] IN
        /\ sl.cfg.rateLimit > 0
        /\ \E i, j \in 1..Len(sl.checks) :
              /\ i < j
              /\ ~sl.checks[i].ok
              /\ sl.checks[j].ok
              /\ WinStart(sl.checks, j) > WinStart(sl.checks, i)
              /\ Len(sl.admitted) = sl.cfg.rateLimit + 1

\* C9: in a Slot with rateLimit = R > 0, for every time t at most R entries
\* are admitted in the sliding interval (t - 1 second, t].
C9_SlidingWindow ==
    \A s \in SlotIds :
        LET sl == slot[s]
            R  == sl.cfg.rateLimit
        IN R > 0 =>
             \A i \in 1..Len(sl.checks) :
                 Cardinality({j \in 1..Len(sl.checks) :
                     /\ sl.checks[j].ok
                     /\ sl.checks[j].t > sl.checks[i].t - WindowMs
                     /\ sl.checks[j].t <= sl.checks[i].t}) <= R

AllFailed(cs) == \A j \in 1..Len(cs) : cs[j].res = "fail"

\* C10: a batch whose first m < maxRetries write attempts fail and whose
\* attempt m+1 is accepted gets exactly m+1 write calls and is delivered:
\* the accepted call is its last, and while all its m <= maxRetries calls
\* have failed it is not given up.
C10_RetryThenDeliver ==
    \A s \in SlotIds :
        LET sl == slot[s] IN
        \A id \in 1..sl.nflush :
            LET cs == CallsOf(sl, id) IN
            /\ \A k \in 1..Len(cs) :
                  (cs[k].res = "ok" /\ k - 1 < sl.cfg.maxRetries) =>
                      /\ Len(cs) = k
                      /\ AllFailed(SubSeq(cs, 1, k - 1))
                      /\ cs[k].attempt = k - 1
                      /\ \/ sl.outcome[id] = "delivered"
                         \/ HasAct(sl, id) /\ Act(sl, id).phase = "settled"
            /\ (AllFailed(cs) /\ Len(cs) <= sl.cfg.maxRetries) =>
                  sl.outcome[id] = "running"

\* a batch was delivered by its second write call after the first failed
C10_Witness ==
    \E s \in SlotIds : \E id \in 1..slot[s].nflush :
        LET cs == CallsOf(slot[s], id) IN
        /\ Len(cs) = 2
        /\ cs[1].res = "fail"
        /\ cs[2].res = "ok"
        /\ slot[s].cfg.maxRetries > 1
        /\ slot[s].outcome[id] = "delivered"

\* C11: a batch whose every write attempt fails gets exactly maxRetries + 1
\* write calls, then it is discarded and never written again.
C11_ExhaustedRetries ==
    \A s \in SlotIds :
        LET sl == slot[s] IN
        \A id \in 1..sl.nflush :
            LET cs == CallsOf(sl, id) IN
            /\ AllFailed(cs) => Len(cs) <= sl.cfg.maxRetries + 1
            /\ sl.outcome[id] = "dropped" =>
                  /\ AllFailed(cs)
                  /\ Len(cs) = sl.cfg.maxRetries + 1
                  /\ \A k \in 1..Len(cs) : cs[k].attempt = k - 1
            /\ (AllFailed(cs) /\ Len(cs) = sl.cfg.maxRetries + 1) =>
                  \/ sl.outcome[id] = "dropped"
                  \/ HasAct(sl, id) /\ Act(sl, id).phase = "settled"

\* a batch was discarded after its retry failed too, and a later batch of
\* the same Slot was written
C11_Witness ==
    \E s \in SlotIds :
        /\ slot[s].cfg.maxRetries >= 1
        /\ slot[s].nflush >= 2
        /\ slot[s].outcome[1] = "dropped"
        /\ CallsOf(slot[s], 2) # <<>>

\* C13: every write call passes a single entry when its batch holds one
\* record and the ordered sequence of all its records when it holds more;
\* an empty batch is never passed.
C13_PayloadShape ==
    \A s \in SlotIds :
        \A i \in 1..Len(slot[s].calls) :
            LET c == slot[s].calls[i]
                b == slot[s].takes[c.act].batch
            IN /\ b # <<>>
               /\ c.payload.items = b
               /\ c.payload.array = (Len(b) > 1)

\* one Slot made a write with a single entry and a write with an array
C13_Witness ==
    \E s \in SlotIds : \E i, j \in 1..Len(slot[s].calls) :
        /\ ~slot[s].calls[i].payload.array
        /\ slot[s].calls[j].payload.array
        /\ Len(slot[s].calls[j].payload.items) >= 2

\* the step admitted one entry to Slot s while no write of s was in flight
AdmitsIdle(s) ==
    /\ slot[s].cfg.batchSize > 1
    /\ slot[s].flushPromise = NoPromise
    /\ Len(slot'[s].admitted) = Len(slot[s].admitted) + 1

\* what the step does on Slot s when the admission is, or is not, the
\* batchSize-th since the queue was last emptied
SizeTrigger(s) ==
    LET a == slot[s]
        b == slot'[s]
        B == a.cfg.batchSize
    IN /\ Len(a.queue) + 1 < B =>
             /\ b.calls = a.calls
             /\ b.nflush = a.nflush
       /\ Len(a.queue) + 1 = B =>
             /\ b.nflush = a.nflush + 1
             /\ b.takes[b.nflush].batch = Last(B, b.admitted)
             /\ Len(b.calls) > Len(a.calls)
             /\ \A i \in (Len(a.calls) + 1)..Len(b.calls) :
                    /\ b.calls[i].act = b.nflush
                    /\ b.calls[i].payload.items = Last(B, b.admitted)

\* C12 as stated: with batchSize B > 1 and no write in flight, an admission
\* that is not the B-th since the queue was emptied makes no write and the
\* B-th makes one write of those B entries in admission order.
C12_SizeTriggerAlways ==
    [][\A s \in SlotIds : AdmitsIdle(s) => SizeTrigger(s)]_vars

\* C12: with batchSize B > 1, no write in flight, and maxQueueSize 0 or
\* at least B, an admission that is not the B-th since the queue was
\* emptied makes no write and the B-th makes one write of those B entries
\* in admission order.
C12_SizeTrigger ==
    [][\A s \in SlotIds :
          (/\ AdmitsIdle(s)
           /\ \/ slot[s].cfg.maxQueueSize = 0
              \/ slot[s].cfg.maxQueueSize >= slot[s].cfg.batchSize)
          => SizeTrigger(s)]_vars

\* a log call admitted the batchSize-th entry and the whole batch was
\* taken, with no timer expiry and no flush call before
C12_Witness ==
    \E s \in SlotIds :
        /\ slot[s].cfg.batchSize > 1
        /\ status.op = "log"
        /\ waiters = <<>>
        /\ slot[s].nflush = 1
        /\ Len(slot[s].admitted) = slot[s].cfg.batchSize
        /\ slot[s].takes[1].batch = slot[s].admitted
        /\ slot[s].calls # <<>>

\* C14: in a Slot with batchSize <= 1 every write call carries exactly one
\* entry and never an array, also for log calls made while an earlier write
\* of the Slot has not completed.
C14_SingleEntryWrites ==
    \A s \in SlotIds :
        slot[s].cfg.batchSize <= 1 =>
            \A i \in 1..Len(slot[s].calls) :
                /\ ~slot[s].calls[i].payload.array
                /\ Len(slot[s].calls[i].payload.items) = 1

\* C15: in a Slot with batchSize <= 1 every admitted entry has been handed
\* to write when the log call that produced it returns.
C15_WrittenInEnqueue ==
    \A s \in SlotIds :
        slot[s].cfg.batchSize <= 1 =>
            \A i \in 1..Len(slot[s].admitted) :
                \E j \in 1..Len(slot[s].calls) :
                    slot[s].admitted[i] \in Range(slot[s].calls[j].payload.items)

\* C16: no entry that was still queued in a Slot when configure replaced it
\* is written to that Slot's destination afterwards.
C16_DestroyedQueueDiscarded ==
    \A s \in SlotIds :
        slot[s].destroyed.done =>
            \A i \in 1..Len(slot[s].destroyed.queue) :
                \A j \in 1..Len(slot[s].calls) :
                    slot[s].destroyed.queue[i] \notin Range(slot[s].calls[j].payload.items)

\* C17: no Slot outside the active collection has a pending flush timer:
\* configure cancels the timer of every Slot it replaces and that timer is
\* never armed again.
C17_NoTimerOutsideActive ==
    \A s \in SlotIds :
        /\ s \notin Range(logger.slots) => ~slot[s].timer
        /\ slot[s].destroyed.done => s \notin Range(logger.slots)

\* a Slot was replaced while its timer was pending and an entry was in its
\* queue, and the Slot that replaced it has a timer pending
C17_Witness ==
    \E s \in SlotIds :
        /\ s \notin Range(logger.slots)
        /\ slot[s].destroyed.done
        /\ slot[s].destroyed.timer
        /\ slot[s].destroyed.queue # <<>>
        /\ \E t \in Range(logger.slots) : slot[t].timer

\* C18: addTransport appends exactly one new Slot at the end of the active
\* collection and leaves every existing Slot and the logger settings
\* unchanged.
C18_AddTransportAppends ==
    [][status'.op = "addTransport" =>
          /\ Len(slot') = Len(slot) + 1
          /\ \A s \in SlotIds : slot'[s] = slot[s]
          /\ logger'.slots = Append(logger.slots, Len(slot'))
          /\ slot'[Len(slot')].queue = <<>>
          /\ slot'[Len(slot')].offered = <<>>
          /\ ~slot'[Len(slot')].timer
          /\ logger'.level = logger.level
          /\ logger'.mode = logger.mode
          /\ logger'.serviceName = logger.serviceName]_vars

\* a Slot was added while an earlier Slot had a write in flight and an
\* entry waiting in its queue
C18_Witness ==
    /\ status.op = "addTransport"
    /\ Len(logger.slots) >= 2
    /\ \E s \in Range(logger.slots) :
          /\ s < Len(slot)
          /\ slot[s].flushPromise # NoPromise
          /\ slot[s].queue # <<>>

\* the write calls Slot s made in the step
NewCalls(s) == {slot'[s].calls[i] : i \in (Len(slot[s].calls) + 1)..Len(slot'[s].calls)}

\* C19: a log call reaches the active Slots in the order they were
\* configured and then added: of two active Slots, the writes the call
\* makes on the earlier one come before those on the later one.
C19_DispatchOrder ==
    [][status'.op = "log" =>
          /\ \A i, j \in 1..Len(logger.slots) : i < j => logger.slots[i] < logger.slots[j]
          /\ \A s, t \in Range(logger.slots) :
                s < t => \A c \in NewCalls(s), d \in NewCalls(t) : c.seq < d.seq]_vars

\* one log call wrote its entry synchronously on the configured Slot and
\* on a Slot added later
C19_Witness ==
    /\ status.op = "log"
    /\ \E s, t \in Range(logger.slots) :
          /\ s < t
          /\ slot[s].origin = "configure"
          /\ slot[t].origin = "addTransport"
          /\ \A u \in {s, t} :
                /\ slot[u].calls # <<>>
                /\ slot[u].calls[Len(slot[u].calls)].payload.items = <<status.entry>>
                /\ slot[u].calls[Len(slot[u].calls)].res = "ok"

\* the LogConfig has a level or mode outside the valid ones, or a
\* serviceName of nothing but white space
Invalid(config) ==
    \/ "level" \in config.has /\ config.level \notin {"debug", "info", "warn", "error"}
    \/ "mode" \in config.has /\ config.mode \notin {"pretty", "json", "silent"}
    \/ /\ "serviceName" \in config.has
       /\ \A i \in 1..Len(config.serviceName) : config.serviceName[i] \in WhiteSpace

\* C20: configure with an invalid level, mode or serviceName raises and
\* changes nothing: level, mode, serviceName and the Slots stay as they
\* were, also when the call carries valid fields or a transports list.
C20_InvalidConfigureChangesNothing ==
    [][status'.op = "configure" =>
          /\ status'.raised <=> Invalid(status'.arg)
          /\ Invalid(status'.arg) =>
                /\ logger' = logger
                /\ slot' = slot
                /\ micro' = micro
                /\ waiters' = waiters]_vars

\* an invalid configure call that carried a transports list was made while
\* the active Slot had an entry queued and its timer pending
C20_Witness ==
    /\ status.op = "configure"
    /\ status.raised
    /\ "transports" \in status.arg.has
    /\ \E s \in Range(logger.slots) :
          /\ slot[s].timer
          /\ slot[s].queue # <<>>
          /\ ~slot[s].destroyed.done

\* a Slot never has two scheduled timers, and this.timer is set exactly
\* while one is scheduled
OneHostTimer ==
    \A s \in SlotIds :
        /\ Len(slot[s].hostTimers) <= 1
        /\ slot[s].timer <=> slot[s].hostTimers # <<>>

\* an enqueue that finds the timer pending and leaves it pending has not
\* scheduled or cleared anything, and a step in which the callback ran
\* leaves no timer pending
TimerSteps ==
    \A s \in SlotIds :
        /\ (/\ slot[s].timer
            /\ slot'[s].timer
            /\ Len(slot'[s].admitted) > Len(slot[s].admitted))
           => slot'[s].hostTimers = slot[s].hostTimers
        /\ slot'[s].fired > slot[s].fired =>
              /\ slot'[s].fired = slot[s].fired + 1
              /\ ~slot'[s].timer
              /\ slot'[s].hostTimers = <<>>

\* C25: each Slot has at most one pending flush timer in every reachable
\* state; an enqueue while the timer is pending schedules no second one
\* and does not postpone it, and a timer that fires is not pending again
\* until a later enqueue arms it.
C25_OneTimer == [](OneHostTimer) /\ [][TimerSteps]_vars

\* after one timer has fired, a later entry armed the timer again and
\* another entry was admitted while it was pending
C25_Witness ==
    \E s \in SlotIds :
        /\ slot[s].fired >= 1
        /\ slot[s].timer
        /\ slot[s].hostTimers # <<>>
        /\ slot[s].hostTimers[1] < Len(slot[s].admitted)
        /\ slot[s].hostTimers[1] > 1

\* C30: a Slot with maxQueueSize N > 0 holds at most N entries in its
\* queue in every reachable state, also while a write is in flight or
\* being retried, and every batch handed to write has at most N entries.
C30_QueueBound ==
    \A s \in SlotIds :
        slot[s].cfg.maxQueueSize > 0 =>
            /\ Len(slot[s].queue) <= slot[s].cfg.maxQueueSize
            /\ \A i \in 1..Len(slot[s].takes) :
                  Len(slot[s].takes[i].batch) <= slot[s].cfg.maxQueueSize
            /\ \A i \in 1..Len(slot[s].calls) :
                  Len(slot[s].calls[i].payload.items) <= slot[s].cfg.maxQueueSize

\* the queue is full while an earlier batch waits for its retry
C30_Witness ==
    \E s \in SlotIds :
        /\ slot[s].cfg.maxQueueSize > 0
        /\ Len(slot[s].queue) = slot[s].cfg.maxQueueSize
        /\ slot[s].flushPromise # NoPromise
        /\ Act(slot[s], slot[s].flushPromise).phase = "sleeping"

\* C27: an entry below the logger's level reaches no Slot (no enqueue, no
\* rate-limiter count, no write), and an entry at or above it is passed to
\* every active Slot whatever the output mode, silent included.
C27_GlobalLevelGate ==
    [][status'.op = "log" =>
          IF IndexOf(status'.entry.level) < IndexOf(logger.level)
          THEN /\ slot' = slot
               /\ micro' = micro
               /\ status'.console = "none"
          ELSE /\ \A s \in Range(logger.slots) :
                     slot'[s].offered = Append(slot[s].offered, status'.entry)
               /\ status'.console = "none" <=> logger.mode = "silent"]_vars

\* in silent mode a log call passed its entry to the Slot after an
\* earlier entry had been stopped by the level gate
C27_Witness ==
    /\ status.op = "log"
    /\ logger.mode = "silent"
    /\ status.console = "none"
    /\ 1 \in Range(logger.slots)
    /\ slot[1].offered # <<>>
    /\ slot[1].offered[Len(slot[1].offered)] = status.entry
    /\ Len(slot[1].offered) < status.entry.id

\* C28: configure without a transports field leaves the active Slots and
\* every Slot's queue, timer, rate window and write in flight unchanged;
\* of level, mode and serviceName only those present in the call change.
C28_ConfigureFrame ==
    [][(status'.op = "configure" /\ "transports" \notin status'.arg.has) =>
          LET c == status'.arg IN
          /\ slot' = slot
          /\ micro' = micro
          /\ waiters' = waiters
          /\ logger'.slots = logger.slots
          /\ ~status'.raised =>
                /\ logger'.level = IF "level" \in c.has THEN c.level ELSE logger.level
                /\ logger'.mode = IF "mode" \in c.has THEN c.mode ELSE logger.mode
                /\ logger'.serviceName = IF "serviceName" \in c.has THEN c.serviceName
                                         ELSE logger.serviceName]_vars

\* configure({ mode }) was called after the level had been changed, while
\* the Slot had an entry queued and its timer pending
C28_Witness ==
    /\ status.op = "configure"
    /\ ~status.raised
    /\ status.arg.has = {"mode"}
    /\ logger.mode = "silent"
    /\ logger.level = "error"
    /\ \E s \in Range(logger.slots) : slot[s].timer /\ slot[s].queue # <<>>

\* the entries of Slot s that were written, in any batch
Written(s) ==
    UNION {Range(slot[s].calls[i].payload.items) : i \in 1..Len(slot[s].calls)}

\* C21: an entry below a Slot's minLevel is never admitted or written at
\* that Slot (an entry at minLevel passes), and every other Slot is still
\* offered, and when unfiltered admits, every entry of the logger.
C21_MinLevelDrops ==
    /\ \A s \in SlotIds :
          slot[s].cfg.minLevel # "undefined" =>
              /\ \A e \in Written(s) \cup Range(slot[s].admitted) :
                    IndexOf(e.level) >= IndexOf(slot[s].cfg.minLevel)
              /\ \A i \in 1..Len(slot[s].offered) :
                    (/\ slot[s].offered[i].level = slot[s].cfg.minLevel
                     /\ slot[s].cfg.filter = "undefined")
                    => slot[s].offered[i] \in Range(slot[s].admitted)
    /\ \A t \in SlotIds :
          /\ Len(slot[t].offered) = nextId - 1
          /\ (slot[t].cfg.minLevel = "undefined" /\ slot[t].cfg.filter = "undefined")
             => slot[t].admitted = slot[t].offered

\* a Slot dropped an entry below its minLevel and admitted one at its
\* minLevel, and the other Slot wrote the dropped entry
C21_Witness ==
    \E s, t \in SlotIds :
        /\ s # t
        /\ slot[s].cfg.minLevel = "warn"
        /\ \E e \in Range(slot[s].offered) :
              /\ e.level = "info"
              /\ e \in Written(t)
        /\ \E e \in Written(s) : e.level = "warn"

\* the filtering stage as the configuration describes it
Passes(cfg, e) ==
    /\ cfg.minLevel = "undefined" \/ IndexOf(e.level) >= IndexOf(cfg.minLevel)
    /\ cfg.filter = "undefined" \/ FilterCall(cfg.filter, e) = "true"

\* C22: an entry passes a Slot's filtering stage exactly when minLevel is
\* unset or met and filter is unset or true for it; an entry the filter
\* rejects is never written at that Slot.
C22_FilterAnd ==
    \A s \in SlotIds :
        /\ slot[s].admitted = SelectSeq(slot[s].offered, LAMBDA e : Passes(slot[s].cfg, e))
        /\ \A e \in Written(s) :
              slot[s].cfg.filter # "undefined" => FilterCall(slot[s].cfg.filter, e) = "true"

\* a Slot with minLevel and filter dropped one entry for its level and one
\* for the filter, and wrote a third
C22_Witness ==
    \E s \in SlotIds :
        /\ slot[s].cfg.minLevel # "undefined"
        /\ slot[s].cfg.filter # "undefined"
        /\ \E e \in Range(slot[s].offered) :
              /\ IndexOf(e.level) < IndexOf(slot[s].cfg.minLevel)
              /\ FilterCall(slot[s].cfg.filter, e) = "true"
        /\ \E e \in Range(slot[s].offered) :
              /\ IndexOf(e.level) >= IndexOf(slot[s].cfg.minLevel)
              /\ FilterCall(slot[s].cfg.filter, e) = "false"
        /\ Written(s) # {}

\* what a flush() call does on Slot s: it depends on that Slot alone
FlushStep(s) ==
    LET a == slot[s]
        b == slot'[s]
    IN IF a.flushPromise # NoPromise
       THEN /\ b.queue = a.queue
            /\ b.nflush = a.nflush
            /\ Len(Act(b, b.flushPromise).reactions)
                  = Len(Act(a, a.flushPromise).reactions) + 1
       ELSE IF a.queue # <<>>
       THEN /\ b.nflush = a.nflush + 1
            /\ b.takes[b.nflush].batch = a.queue
            /\ b.queue = <<>>
            /\ Len(b.calls) = Len(a.calls) + 1
       ELSE b = a

\* a resolved flush() has left nothing of what was admitted before it,
\* at any of its Slots, queued or in an unfinished write
AllDrained ==
    \A w \in 1..Len(waiters) : \A s \in waiters[w].slots :
        (\E i \in 1..waiters[w].snap[s] :
            \/ slot[s].admitted[i] \in Pending(slot[s])
            \/ slot[s].admitted[i] \notin Settled(slot[s]))
        => ~Resolved(w)

\* C23: flush() requests a flush on every active Slot in the call itself,
\* without waiting for the write of an earlier Slot, and its promise
\* resolves only after the flush of every active Slot has completed, each
\* batch delivered or dropped.
C23_FlushAll ==
    /\ [][status'.op = "flush" => \A s \in Range(logger.slots) : FlushStep(s)]_vars
    /\ [](AllDrained)

\* flush() found the first Slot with a write in flight and started the
\* write of the second Slot's queue at once; it resolved after both
C23_Witness ==
    \E w \in 1..Len(waiters) :
        /\ Resolved(w)
        /\ waiters[w].slots = {1, 2}
        /\ waiters[w].busy = {1}
        /\ waiters[w].snap[2] = 1
        /\ slot[2].nflush >= 1
        /\ slot[2].takes[1].batch = SubSeq(slot[2].admitted, 1, 1)
        /\ slot[2].calls[1].seq = slot[1].calls[1].seq + 1
        /\ slot[2].admitted[1] \in Settled(slot[2])

\* C29: a destination whose write stays pending holds back only its own
\* Slot: a log call still returns and reaches every active Slot, an idle
\* immediate Slot writes in the call, and a Slot keeps a flush() pending
\* only while it has a write of its own in flight or a reaction of its own
\* queued.
C29_HungBlocksOwnSlot ==
    /\ [][status'.op = "log" =>
             /\ ~status'.raised
             /\ \A t \in Range(logger.slots) :
                   /\ slot'[t].offered = Append(slot[t].offered, status'.entry)
                   /\ (slot[t].flushPromise = NoPromise /\ slot[t].cfg.batchSize <= 1)
                      => Len(slot'[t].calls) = Len(slot[t].calls) + 1]_vars
    /\ [](\A w \in 1..Len(waiters) : \A s \in waiters[w].left :
             \/ slot[s].flushPromise # NoPromise
             \/ \E k \in 1..Len(micro) : micro[k].s = s)

\* the first Slot's write is still pending while the second Slot has
\* delivered an entry admitted after that write began, and the flush()
\* waits for the first Slot only
C29_Witness ==
    \E w \in 1..Len(waiters) :
        /\ waiters[w].left = {1}
        /\ slot[1].flushPromise # NoPromise
        /\ Act(slot[1], slot[1].flushPromise).phase = "awaiting"
        /\ slot[1].nflush = 1
        /\ slot[1].queue # <<>>
        /\ \E e \in Range(Flatten(slot[2].delivered)) :
              e.id > slot[1].takes[1].batch[1].id

\* flush() on a Slot with an empty queue and no write in flight changes
\* nothing in the Slot and gets a promise that is fulfilled already: the
\* reaction of the Promise.all to it is queued in the same step
IdleFlushStep ==
    status'.op = "flush" =>
        \A s \in Range(logger.slots) :
            (slot[s].queue = <<>> /\ slot[s].flushPromise = NoPromise) =>
                /\ slot'[s] = slot[s]
                /\ \E k \in (Len(micro) + 1)..Len(micro') :
                      micro'[k] = Job("direct", s, 0, Len(waiters'), 0, TRUE)

\* every batch is accepted at most once, a delivered batch exactly once,
\* and no entry is in two batches
WrittenOnce ==
    \A s \in SlotIds :
        /\ \A id \in 1..slot[s].nflush :
              LET oks == SelectSeq(CallsOf(slot[s], id), LAMBDA c : c.res = "ok") IN
              /\ Len(oks) <= 1
              /\ slot[s].outcome[id] = "delivered" => Len(oks) = 1
        /\ \A i, j \in 1..Len(slot[s].takes) :
              i # j => Range(slot[s].takes[i].batch) \cap Range(slot[s].takes[j].batch) = {}

\* each flush() promise is resolved only when the entries admitted before
\* its call are settled and none of them is queued or in an unfinished write
EachDrained ==
    \A w \in 1..Len(waiters) :
        Resolved(w) =>
            \A s \in waiters[w].slots :
                /\ Range(SubSeq(slot[s].admitted, 1, waiters[w].snap[s])) \subseteq Settled(slot[s])
                /\ Range(SubSeq(slot[s].admitted, 1, waiters[w].snap[s])) \cap Pending(slot[s]) = {}

\* C24: flush() on a Slot with an empty queue and no write in flight makes
\* no write and changes no Slot state; with two overlapping flush() calls
\* every batch is still written by exactly one successful write, and each
\* promise resolves only after the entries admitted before its call are
\* drained.
C24_FlushIdempotent ==
    /\ [][IdleFlushStep]_vars
    /\ [](WrittenOnce)
    /\ [](EachDrained)

\* a second flush() was called before the first had resolved and after
\* another entry had been admitted; both resolved, both entries delivered
C24_Witness ==
    /\ Len(waiters) >= 2
    /\ Resolved(1)
    /\ Resolved(2)
    /\ 1 \in waiters[2].overlap
    /\ \E s \in waiters[2].slots :
          /\ waiters[1].snap[s] = 1
          /\ waiters[2].snap[s] = 2
          /\ slot[s].nflush = 2
          /\ slot[s].outcome = <<"delivered", "delivered">>

\* the entry with this id is admitted to the first Slot, a batching Slot
\* with a flush timer that was not destroyed
AdmittedToTimed(id) ==
    /\ slot[1].cfg.batchSize > 1
    /\ slot[1].cfg.flushInterval > 0
    /\ ~slot[1].destroyed.done
    /\ \E e \in Range(slot[1].admitted) : e.id = id

\* the entry with this id was passed to write, or evicted
HandedOrEvicted(id) ==
    \E e \in Written(1) \cup Range(slot[1].evicted) : e.id = id

\* C26: in a batching Slot with flushInterval > 0 that is not destroyed,
\* every admitted entry that is not evicted is eventually passed to write,
\* also when batchSize is never reached and flush() is never called.
C26_TimerDelivers ==
    \A id \in 1..MaxLifeEntries : AdmittedToTimed(id) ~> HandedOrEvicted(id)

\* the timer fired and a batch smaller than batchSize was written, with no
\* flush() call
C26_Witness ==
    /\ waiters = <<>>
    /\ slot[1].fired >= 1
    /\ slot[1].nflush >= 1
    /\ Len(slot[1].takes[1].batch) < slot[1].cfg.batchSize
    /\ slot[1].calls # <<>>

\* configure({ transports }) leaves every Slot it replaces as it was, but
\* for the timer, and touches no queued reaction and no flush() promise
DestroyStep ==
    (status'.op = "configure" /\ ~status'.raised /\ "transports" \in status'.arg.has) =>
        /\ micro' = micro
        /\ waiters' = waiters
        /\ \A s \in Range(logger.slots) :
              /\ slot'[s].destroyed.done
              /\ slot'[s] = [slot[s] EXCEPT !.timer = FALSE, !.hostTimers = <<>>,
                                            !.destroyed = slot'[s].destroyed]

\* destroy on a destroyed Slot, or on one without timer, changes nothing
\* the code reads
DestroyIdempotent ==
    \A s \in SlotIds :
        LET d == Destroy(slot[s]) IN
        /\ ~d.timer
        /\ [Destroy(d) EXCEPT !.destroyed = d.destroyed] = d
        /\ ~slot[s].timer => [d EXCEPT !.destroyed = slot[s].destroyed] = slot[s]

\* the batch that was being written when the Slot was destroyed is still
\* being written, or was delivered, or was dropped after its retries
DestroyedBatchKept ==
    \A s \in SlotIds :
        slot[s].destroyed.act # NoPromise =>
            LET id == slot[s].destroyed.act
                cs == CallsOf(slot[s], id)
            IN /\ slot[s].outcome[id] \in {"running", "delivered", "dropped"}
               /\ slot[s].outcome[id] = "dropped" => Len(cs) = slot[s].cfg.maxRetries + 1
               /\ slot[s].outcome[id] = "delivered" => cs[Len(cs)].res = "ok"
               /\ \A k \in 1..Len(cs) : cs[k].payload.items = slot[s].takes[id].batch

\* Slot s was destroyed while a write was in flight
DestroyedBusy(s) == s \in SlotIds /\ slot[s].destroyed.act # NoPromise

\* ... and that write's batch has been delivered or dropped
DestroyedDone(s) ==
    /\ s \in SlotIds
    /\ slot[s].destroyed.act # NoPromise
    /\ slot[s].outcome[slot[s].destroyed.act] \in {"delivered", "dropped"}

\* C31: destroy() only cancels the pending timer: queue, rate window and
\* the write in flight are unchanged; the batch in flight still runs to
\* completion, delivered or dropped after its retries; destroy() on a
\* destroyed Slot or on a Slot without timer changes nothing.
C31_DestroyOnlyTimer ==
    /\ [][DestroyStep]_vars
    /\ [](DestroyIdempotent)
    /\ [](DestroyedBatchKept)
    /\ \A s \in 1..MaxSlots : DestroyedBusy(s) ~> DestroyedDone(s)

\* a Slot was destroyed with its timer pending, an entry queued and a
\* write in flight; that write was retried afterwards and delivered, and
\* the queued entry is still in the queue
C31_Witness ==
    \E s \in SlotIds :
        /\ slot[s].destroyed.done
        /\ slot[s].destroyed.timer
        /\ slot[s].destroyed.queue # <<>>
        /\ slot[s].queue = slot[s].destroyed.queue
        /\ slot[s].destroyed.act # NoPromise
        /\ slot[s].outcome[slot[s].destroyed.act] = "delivered"
        /\ Len(slot[s].calls) > slot[s].destroyed.calls

\* C32: the batches of a Slot are written in the order they were formed,
\* retries included: every write call of a batch is made after the batch
\* before it was delivered or dropped, no call of a later batch is made
\* while a batch is being written or waits for its retry, and the entries
\* admitted meanwhile stay in the queue, unwritten.
C32_BatchOrder ==
    \A s \in SlotIds :
        LET sl == slot[s] IN
        /\ \A i, j \in 1..Len(sl.calls) :
              i < j => /\ sl.calls[i].act <= sl.calls[j].act
                       /\ sl.calls[i].seq < sl.calls[j].seq
        /\ \A i \in 1..Len(sl.calls) :
              /\ sl.calls[i].busy = {}
              /\ \A k \in 1..(sl.calls[i].act - 1) :
                    sl.outcome[k] \in {"delivered", "dropped"}
        /\ \A id \in Unfinished(sl) :
              /\ \A i \in 1..Len(sl.calls) : sl.calls[i].act <= id
              /\ sl.nflush = id
              /\ \A e \in Range(sl.queue) :
                    /\ e \notin Range(Act(sl, id).batch)
                    /\ \A i \in 1..Len(sl.calls) : e \notin Range(sl.calls[i].payload.items)
        /\ \A k \in 1..Len(sl.takes) : \A m \in 1..Len(sl.takes) :
              k < m => \A e \in Range(sl.takes[k].batch), f \in Range(sl.takes[m].batch) :
                          e.id < f.id

\* an immediate Slot retried its first batch, and the two entries admitted
\* meanwhile were written afterwards as the second batch
C32_Witness ==
    \E s \in SlotIds :
        /\ slot[s].cfg.batchSize <= 1
        /\ \E i \in 1..Len(slot[s].calls) :
              slot[s].calls[i].act = 1 /\ slot[s].calls[i].attempt >= 1
        /\ \E i \in 1..Len(slot[s].calls) : slot[s].calls[i].act = 2
        /\ Len(slot[s].takes) >= 2
        /\ Len(slot[s].takes[2].batch) >= 2

\* C33: every write call of a batch, retries included, passes the entries
\* the batch was formed with, in the same order: none is added from later
\* admissions, none is removed between attempts, and the batch is
\* delivered or dropped as a whole.
C33_RetrySameBatch ==
    \A s \in SlotIds :
        LET sl == slot[s] IN
        /\ \A id \in 1..sl.nflush :
              LET cs == CallsOf(sl, id)
                  b  == sl.takes[id].batch
              IN /\ \A k \in 1..Len(cs) :
                        /\ cs[k].payload = cs[1].payload
                        /\ cs[k].payload.items = b
                        /\ cs[k].attempt = k - 1
                 /\ IsSubseq(b, sl.takes[id].since)
                 /\ HasAct(sl, id) => Act(sl, id).batch = b
                 /\ sl.outcome[id] = "delivered" =>
                        /\ Len(SelectSeq(sl.delivered, LAMBDA d : d = b)) = 1
                        /\ Range(b) \cap Range(Flatten(sl.dropped)) = {}
                 /\ sl.outcome[id] = "dropped" =>
                        /\ Len(SelectSeq(sl.dropped, LAMBDA d : d = b)) = 1
                        /\ Range(b) \cap Range(Flatten(sl.delivered)) = {}
        /\ Len(sl.delivered) + Len(sl.dropped)
              = Cardinality({id \in 1..sl.nflush : sl.outcome[id] \in {"delivered", "dropped"}})

\* a batch of two entries failed, an entry was admitted while it waited
\* for its retry, and the retry delivered the two entries
C33_Witness ==
    \E s \in SlotIds : \E id \in 1..slot[s].nflush :
        /\ Len(slot[s].takes[id].batch) >= 2
        /\ Len(CallsOf(slot[s], id)) >= 2
        /\ slot[s].outcome[id] = "delivered"
        /\ slot[s].queue # <<>>
        /\ slot[s].nflush = id

\* number of times entry e occurs in the sequence seq
Occurrences(e, seq) == Len(SelectSeq(seq, LAMBDA x : x = e))

\* the batches of the writes of a Slot that have not ended
InFlightBatches(sl) ==
    SelectSeq([i \in 1..Len(sl.takes) |->
                  IF sl.outcome[i] = "running" THEN sl.takes[i].batch ELSE <<>>],
              LAMBDA b : b # <<>>)

\* C34: every entry admitted to a Slot is, in every reachable state, in
\* exactly one of: the queue, the evicted entries, the one batch in
\* flight, the delivered batches, the dropped batches.  It is in at most
\* one batch and is delivered at most once.
C34_OnePlace ==
    \A s \in SlotIds :
        LET sl == slot[s] IN
        /\ Len(InFlightBatches(sl)) <= 1
        /\ \A i \in 1..Len(sl.admitted) :
              LET e == sl.admitted[i] IN
              /\ Occurrences(e, sl.queue) + Occurrences(e, sl.evicted)
                    + Occurrences(e, Flatten(InFlightBatches(sl)))
                    + Occurrences(e, Flatten(sl.delivered))
                    + Occurrences(e, Flatten(sl.dropped)) = 1
              /\ Occurrences(e, Flatten([k \in 1..Len(sl.takes) |-> sl.takes[k].batch])) <= 1
              /\ Cardinality({k \in 1..Len(sl.calls) :
                                 /\ e \in Range(sl.calls[k].payload.items)
                                 /\ sl.calls[k].res = "ok"}) <= 1

\* one entry was delivered, the next is in a batch that is being retried,
\* and a third waits in the queue
C34_Witness ==
    \E s \in SlotIds :
        /\ slot[s].delivered # <<>>
        /\ slot[s].queue # <<>>
        /\ slot[s].flushPromise # NoPromise
        /\ Act(slot[s], slot[s].flushPromise).attempt >= 1
        /\ slot[s].outcome[slot[s].flushPromise] = "running"

\* what a log call whose entry is not admitted leaves unchanged at Slot s
RejectStep(s) ==
    LET a == slot[s]
        b == slot'[s]
        e == status'.entry
    IN Len(b.admitted) = Len(a.admitted) =>
         /\ b.offered = Append(a.offered, e)
         /\ b.queue = a.queue
         /\ b.timer = a.timer
         /\ b.hostTimers = a.hostTimers
         /\ b.flushPromise = a.flushPromise
         /\ b.writes = a.writes
         /\ b.nflush = a.nflush
         /\ b.takes = a.takes
         /\ b.calls = a.calls
         /\ b.evicted = a.evicted
         /\ b.since = a.since
         /\ micro' = micro
         /\ ~Passes(a.cfg, e) =>
               /\ b.rateLimitCount = a.rateLimitCount
               /\ b.rateLimitWindowStart = a.rateLimitWindowStart
               /\ b.checks = a.checks
         /\ Passes(a.cfg, e) =>
               /\ a.cfg.rateLimit > 0
               /\ a.rateLimitCount >= a.cfg.rateLimit
               /\ b.checks = Append(a.checks, [t |-> now, ok |-> FALSE])

\* ... and an entry the filters reject is never admitted
RejectedStays(s) ==
    ~Passes(slot[s].cfg, status'.entry) => slot'[s].admitted = slot[s].admitted

\* C35: an entry rejected at admission, by minLevel, filter or the rate
\* limit, leaves the queue, the pending timer and the write in flight
\* unchanged and triggers no eviction and no flush; rejected by minLevel or
\* filter it also leaves the rate window's start and count unchanged.
C35_RejectionFrame ==
    [][(status'.op = "log" /\ Len(logger.slots) = 1) =>
          \A s \in Range(logger.slots) : RejectStep(s) /\ RejectedStays(s)]_vars

\* a log call's entry was rejected by minLevel or by the filter while an
\* entry was queued, the timer pending and a write in flight; an earlier
\* entry had been rejected by the rate limit
C35_Witness ==
    \E s \in SlotIds :
        /\ status.op = "log"
        /\ ~Passes(slot[s].cfg, status.entry)
        /\ slot[s].offered[Len(slot[s].offered)] = status.entry
        /\ slot[s].queue # <<>>
        /\ slot[s].timer
        /\ slot[s].flushPromise # NoPromise
        /\ \E i \in 1..Len(slot[s].checks) : ~slot[s].checks[i].ok

\* the log call of the step reaches the rate limiter of Slot s
RateChecked(s) ==
    /\ status'.op = "log"
    /\ s \in Range(logger.slots)
    /\ slot[s].cfg.rateLimit > 0
    /\ Passes(slot[s].cfg, status'.entry)

\* the entry of the step is rejected at Slot s and the rate window stays
RateRejected(s) ==
    /\ slot'[s].admitted = slot[s].admitted
    /\ slot'[s].rateLimitWindowStart = slot[s].rateLimitWindowStart
    /\ slot'[s].rateLimitCount = slot[s].rateLimitCount

\* C36 as stated: the window is reset only when more than 1000 ms have
\* elapsed since its start; at exactly 1000 ms, with the counter at
\* rateLimit, the entry is rejected and start and counter are unchanged.
C36_ResetStrictlyAfter ==
    [][\A s \in SlotIds :
          (/\ RateChecked(s)
           /\ now - slot[s].rateLimitWindowStart = WindowMs
           /\ slot[s].rateLimitCount >= slot[s].cfg.rateLimit)
          => RateRejected(s)]_vars

\* C36: the window is reset when at least 1000 ms have elapsed since its
\* start: at exactly 1000 ms, also with the counter at rateLimit, the entry
\* is admitted, the start becomes now and the counter 1; before that, with
\* the counter at rateLimit, the entry is rejected and start and counter
\* are unchanged.
C36_ResetAtWindow ==
    [][\A s \in SlotIds :
          RateChecked(s) =>
              LET a == slot[s]
                  b == slot'[s]
                  elapsed == now - a.rateLimitWindowStart
              IN /\ elapsed >= WindowMs =>
                       /\ b.admitted = Append(a.admitted, status'.entry)
                       /\ b.rateLimitWindowStart = now
                       /\ b.rateLimitCount = 1
                 /\ (elapsed < WindowMs /\ a.rateLimitCount >= a.cfg.rateLimit) =>
                       RateRejected(s)
                 /\ (elapsed < WindowMs /\ a.rateLimitCount < a.cfg.rateLimit) =>
                       /\ b.admitted = Append(a.admitted, status'.entry)
                       /\ b.rateLimitWindowStart = a.rateLimitWindowStart
                       /\ b.rateLimitCount = a.rateLimitCount + 1]_vars

\* rateLimit entries were admitted and one rejected at one instant, and
\* an entry checked exactly 1000 ms later was admitted and began a window
C36_Witness ==
    \E s \in SlotIds :
        LET sl == slot[s]
            n == Len(sl.checks)
        IN /\ status.op = "log"
           /\ n > sl.cfg.rateLimit + 1
           /\ sl.checks[n].ok
           /\ sl.checks[n].t = now
           /\ sl.rateLimitWindowStart = now
           /\ sl.rateLimitCount = 1
           /\ \A i \in 1..(n - 1) : sl.checks[i].t = now - WindowMs
           /\ ~sl.checks[n - 1].ok

\* C37 as stated: after a failed write call of a batch another call is
\* made only if the calls made so far are fewer than maxRetries, so a
\* batch gets at most max(1, maxRetries) calls when all fail.
C37_RetryWhileBelowMax ==
    \A s \in SlotIds : \A id \in 1..slot[s].nflush :
        LET cs == CallsOf(slot[s], id)
            M  == slot[s].cfg.maxRetries
        IN /\ \A k \in 1..(Len(cs) - 1) : cs[k].res = "fail" => k < M
           /\ AllFailed(cs) => Len(cs) <= (IF M > 1 THEN M ELSE 1)

\* C37: after a failed write call of a batch another call is made if and
\* only if the calls made so far are at most maxRetries (the retries made
\* so far are fewer than maxRetries); otherwise the batch is discarded, so
\* a batch whose calls all fail gets exactly maxRetries + 1 of them.
C37_RetryUpToMax ==
    \A s \in SlotIds : \A id \in 1..slot[s].nflush :
        LET sl == slot[s]
            cs == CallsOf(sl, id)
            M  == sl.cfg.maxRetries
            n  == Len(cs)
        IN /\ \A k \in 1..(n - 1) : cs[k].res = "fail" /\ k <= M
           /\ (n > 0 /\ cs[n].res = "fail" /\ n <= M) =>
                 /\ sl.outcome[id] = "running"
                 /\ HasAct(sl, id)
                 /\ Act(sl, id).phase \in {"settled", "sleeping"}
           /\ (n > 0 /\ cs[n].res = "fail" /\ n > M) =>
                 /\ n = M + 1
                 /\ \/ sl.outcome[id] = "dropped"
                    \/ HasAct(sl, id) /\ Act(sl, id).phase = "settled"
           /\ sl.outcome[id] = "dropped" => n = M + 1 /\ cs[n].res = "fail"

\* with maxRetries >= 1, a batch was written again after as many failed
\* calls as maxRetries, and discarded when that call failed too
C37_Witness ==
    \E s \in SlotIds : \E id \in 1..slot[s].nflush :
        LET cs == CallsOf(slot[s], id) IN
        /\ slot[s].cfg.maxRetries >= 1
        /\ Len(cs) = slot[s].cfg.maxRetries + 1
        /\ cs[Len(cs)].attempt = slot[s].cfg.maxRetries
        /\ cs[Len(cs)].res = "fail"
        /\ slot[s].outcome[id] = "dropped"

Min(a, b) == IF a < b THEN a ELSE b

\* the i-th batch of both Slots holds the same entries and has ended, and
\* the two destinations failed and accepted at the same attempts, as far
\* as both were called
SamePattern(id) ==
    LET c1 == CallsOf(slot[1], id)
        c2 == CallsOf(slot[2], id)
    IN /\ slot[1].takes[id].batch = slot[2].takes[id].batch
       /\ slot[1].outcome[id] # "running"
       /\ slot[2].outcome[id] # "running"
       /\ \A k \in 1..Min(Len(c1), Len(c2)) : c1[k].res = c2[k].res

\* C38: a raised error and a rejected promise are treated alike: with the
\* same maxRetries and retryDelay and the same failures per attempt, the
\* destination that raises and the one that rejects get the same number
\* of write calls with the same payloads, and the batch ends the same way.
C38_RaiseLikeReject ==
    \A id \in 1..Min(slot[1].nflush, slot[2].nflush) :
        SamePattern(id) =>
            LET c1 == CallsOf(slot[1], id)
                c2 == CallsOf(slot[2], id)
            IN /\ Len(c1) = Len(c2)
               /\ \A k \in 1..Len(c1) :
                     /\ c1[k].payload = c2[k].payload
                     /\ c1[k].attempt = c2[k].attempt
               /\ slot[1].outcome[id] = slot[2].outcome[id]
               /\ slot[1].outcome[id] \in {"delivered", "dropped"}

\* both destinations failed the first attempt, one by raising and one by
\* rejecting, both were called again after the retry delay and accepted
C38_Witness ==
    /\ slot[1].cfg.maxRetries >= 1
    /\ slot[1].nflush >= 1
    /\ slot[2].nflush >= 1
    /\ SamePattern(1)
    /\ Len(CallsOf(slot[1], 1)) = 2
    /\ Len(CallsOf(slot[2], 1)) = 2
    /\ CallsOf(slot[1], 1)[1].res = "fail"
    /\ slot[1].outcome[1] = "delivered"
    /\ slot[2].outcome[1] = "delivered"

\* a pending timer has entries to flush
TimerHasQueue ==
    \A s \in SlotIds :
        (slot[s].timer \/ slot[s].hostTimers # <<>>) => slot[s].queue # <<>>

\* a step that takes the queue into a batch leaves no timer pending, and
\* the timer callback finds entries in the queue
TakeCancels ==
    \A s \in SlotIds :
        /\ slot'[s].nflush > slot[s].nflush =>
              /\ ~slot'[s].timer
              /\ slot'[s].hostTimers = <<>>
              /\ slot'[s].queue = <<>>
        /\ slot'[s].fired > slot[s].fired => slot[s].queue # <<>>

\* C39: in every reachable state a pending flush timer implies a
\* non-empty queue: a flush that takes the queue into a batch cancels the
\* pending timer in the same step, so no timer fires on a queue that a
\* size-triggered or explicit flush has emptied.
C39_TimerImpliesQueue == [](TimerHasQueue) /\ [][TakeCancels]_vars

\* the timer was pending when a log call brought the queue to batchSize;
\* the call took the batch and no timer is pending, none having fired
C39_Witness ==
    \E s \in SlotIds :
        /\ status.op = "log"
        /\ slot[s].cfg.flushInterval > 0
        /\ slot[s].cfg.batchSize > 1
        /\ slot[s].nflush >= 1
        /\ Len(slot[s].takes[slot[s].nflush].batch) = slot[s].cfg.batchSize
        /\ status.entry \in Range(slot[s].takes[slot[s].nflush].batch)
        /\ slot[s].fired = 0
        /\ waiters = <<>>
        /\ ~slot[s].timer
        /\ slot[s].queue = <<>>

\* the w-th flush() call has been made
FlushCalled(w) == w <= Len(waiters)

\* ... and its promise is settled, every Slot's part fulfilled
FlushEnded(w) == w <= Len(waiters) /\ waiters[w].left = {} /\ ~waiters[w].rejected

\* the entries admitted to Slot s before flush() call w
AdmittedBefore(w, s) == Range(SubSeq(slot[s].admitted, 1, waiters[w].snap[s]))

\* the writes of Slot s that overtook flush() call w: the call came to wait
\* behind them (line 104) and they hold only entries admitted after it
Overtaking(w, s) ==
    {id \in Range(waiters[w].behind[s]) :
        Range(slot[s].takes[id].batch) \cap AdmittedBefore(w, s) = {}}

====
